---- MODULE Spec2Model ----
(***************************************************************************)
(* Model of the agent workflow engine: the graph stepper                    *)
(* (engine.py, WorkflowEngine.execute), the guard evaluator it calls        *)
(* (engine.py, SafeConditionEvaluator) and the validating evaluator         *)
(* (condition_evaluator.py, SafeConditionEvaluator).                        *)
(*                                                                         *)
(* Python values are records [t, v]: t is the Python type, v the payload.   *)
(* Expression trees are the nodes ast.parse builds, as records with a field *)
(* k naming the node class.  Wall-clock fields of a LogEntry (duration,     *)
(* timestamp) carry no control flow and are left out.                       *)
(***************************************************************************)
EXTENDS Integers, Sequences, FiniteSets, TLC

(***************************************************************************)
(* Bounds of the model.                                                     *)
(***************************************************************************)
\* largest integer an initial state holds under the key "value"
MaxInitValue == 1
\* a node function that appends to state["visited"] stops appending at this length
MaxList == 2

(***************************************************************************)
(* Program constants.                                                       *)
(***************************************************************************)
\* engine.py: max_steps = 1000
MAX_STEPS == 1000

(***************************************************************************)
(* Python values.                                                           *)
(***************************************************************************)
IntV(n) == [t |-> "int", v |-> n]
BoolV(b) == [t |-> "bool", v |-> b]
StrV(s) == [t |-> "str", v |-> s]
NoneV == [t |-> "none", v |-> 0]
ListV(s) == [t |-> "list", v |-> s]
TupleV(s) == [t |-> "tuple", v |-> s]
\* the state mapping itself, when an expression yields it (a bare `state`)
DictV == [t |-> "dict", v |-> 0]
\* a bound method of the state mapping or of a constant (state.get, 'a'.upper)
MethV(self, name) == [t |-> "method", v |-> name, self |-> self]
\* slice(lower, upper), what the subscript a[lower:upper] passes to a
SliceV(lower, upper) == [t |-> "slice", v |-> <<lower, upper>>]
\* a raised exception, by class name
ExcV(kind) == [t |-> "exc", v |-> kind]
IsExc(x) == x.t = "exc"

IsNum(x) == x.t \in {"int", "bool"}
Num(x) == IF x.t = "bool" THEN (IF x.v THEN 1 ELSE 0) ELSE x.v

\* a float, as the fraction num / den with den > 0 (the floats of the model,
\* 0.5 and the scores 1.0 - issues / (5 * functions), compare as their fractions)
FloatV(num, den) == [t |-> "float", v |-> <<num, den>>]
IsReal(x) == IsNum(x) \/ x.t = "float"
Numer(x) == IF x.t = "float" THEN x.v[1] ELSE Num(x)
Denom(x) == IF x.t = "float" THEN x.v[2] ELSE 1

\* the strings of the model in Python's (lexicographic) order
StrOrder ==
    <<"", "a", "b", "code", "done", "functions", "i", "issues", "iterations", "missing",
      "quality_score", "s", "suggestions", "value", "visited", "x">>
StrRank(s) == CHOOSE i \in 1..Len(StrOrder) : StrOrder[i] = s

\* bool(x)
Truthy(x, state) ==
    CASE x.t = "bool" -> x.v
      [] x.t = "int" -> x.v # 0
      [] x.t = "float" -> x.v[1] # 0
      [] x.t = "str" -> x.v # ""
      [] x.t = "none" -> FALSE
      [] x.t \in {"list", "tuple"} -> Len(x.v) > 0
      [] x.t = "dict" -> DOMAIN state # {}
      [] OTHER -> TRUE

\* l == r
PyEq(l, r) ==
    IF IsReal(l) /\ IsReal(r) THEN Numer(l) * Denom(r) = Numer(r) * Denom(l)
    ELSE IF l.t = r.t THEN l.v = r.v
    ELSE FALSE

\* l < r for two sequences of numbers or of strings, element by element
RECURSIVE SeqLess(_, _, _)
SeqLess(a, b, i) ==
    IF i > Len(b) THEN FALSE
    ELSE IF i > Len(a) THEN TRUE
    ELSE IF PyEq(a[i], b[i]) THEN SeqLess(a, b, i + 1)
    ELSE IF IsNum(a[i]) /\ IsNum(b[i]) THEN Num(a[i]) < Num(b[i])
    ELSE StrRank(a[i].v) < StrRank(b[i].v)

\* can l < r be decided without a TypeError
Orderable(l, r) ==
    \/ IsReal(l) /\ IsReal(r)
    \/ l.t = "str" /\ r.t = "str"
    \/ /\ l.t = r.t
       /\ l.t \in {"list", "tuple"}
       /\ \A i \in 1..(IF Len(l.v) < Len(r.v) THEN Len(l.v) ELSE Len(r.v)) :
            \/ IsNum(l.v[i]) /\ IsNum(r.v[i])
            \/ l.v[i].t = "str" /\ r.v[i].t = "str"

PyLess(l, r) ==
    IF IsReal(l) /\ IsReal(r) THEN Numer(l) * Denom(r) < Numer(r) * Denom(l)
    ELSE IF l.t = "str" THEN StrRank(l.v) < StrRank(r.v)
    ELSE SeqLess(l.v, r.v, 1)

\* one comparison `l op r`: a bool, or the TypeError Python raises
PyCompare(op, l, r) ==
    CASE op = "Eq" -> BoolV(PyEq(l, r))
      [] op = "NotEq" -> BoolV(~PyEq(l, r))
      [] OTHER ->
           IF ~Orderable(l, r) THEN ExcV("TypeError")
           ELSE CASE op = "Lt" -> BoolV(PyLess(l, r))
                  [] op = "LtE" -> BoolV(PyLess(l, r) \/ PyEq(l, r))
                  [] op = "Gt" -> BoolV(PyLess(r, l))
                  [] op = "GtE" -> BoolV(PyLess(r, l) \/ PyEq(l, r))

\* a dict.get that forgets the default
DictGetNoDefault(state, key, default) ==
    IF key.t = "str" /\ key.v \in DOMAIN state THEN state[key.v] ELSE NoneV

\* dict.get(key, default) on the state mapping: its keys are strings
Hashable(x) == x.t \notin {"list", "dict", "slice"}
DictGet(state, key, default) ==
    IF ~Hashable(key) THEN ExcV("TypeError")
    ELSE IF key.t = "str" /\ key.v \in DOMAIN state THEN state[key.v]
    ELSE default

\* the first exception in a list of results, if any
HasExc(vals) == \E i \in 1..Len(vals) : IsExc(vals[i])
FirstExc(vals) ==
    vals[CHOOSE i \in 1..Len(vals) :
            IsExc(vals[i]) /\ \A j \in 1..(i - 1) : ~IsExc(vals[j])]

(***************************************************************************)
(* Expression trees (the classes of Python's ast module).                   *)
(***************************************************************************)
Constant(v) == [k |-> "Constant", value |-> v]
Name(id) == [k |-> "Name", id |-> id]
BoolOp(op, values) == [k |-> "BoolOp", op |-> op, values |-> values]
BinOp(left, op, right) == [k |-> "BinOp", op |-> op, left |-> left, right |-> right]
UnaryOp(op, operand) == [k |-> "UnaryOp", op |-> op, operand |-> operand]
Compare(left, ops, comparators) ==
    [k |-> "Compare", left |-> left, ops |-> ops, comparators |-> comparators]
Subscript(value, slice) == [k |-> "Subscript", value |-> value, slice |-> slice]
Slice(lower, upper) == [k |-> "Slice", lower |-> lower, upper |-> upper]
Call(func, args, keywords) ==
    [k |-> "Call", func |-> func, args |-> args, keywords |-> keywords]
Attribute(value, attr) == [k |-> "Attribute", value |-> value, attr |-> attr]
Tuple(elts) == [k |-> "Tuple", elts |-> elts]
\* a field that holds None instead of a node (an open slice bound)
NoNode == [k |-> "None"]
\* what ast.parse yields for text that is not an expression
SyntaxErrorTree == [k |-> "SyntaxError"]

StateName == Name("state")
StateSub(key) == Subscript(StateName, Constant(StrV(key)))
StateGet(args) == Call(Attribute(StateName, "get"), args, <<>>)
StateClear == Call(Attribute(StateName, "clear"), <<>>, <<>>)
StatePop(args) == Call(Attribute(StateName, "pop"), args, <<>>)
StrConst(s) == Constant(StrV(s))
IntConst(n) == Constant(IntV(n))
Cmp(left, op, right) == Compare(left, <<op>>, <<right>>)

(***************************************************************************)
(* engine.py, SafeConditionEvaluator: the interpreter execute calls for     *)
(* every guard.  It has no validation pass: a node it does not know raises  *)
(* ValueError when the walk reaches it.                                     *)
(***************************************************************************)
RECURSIVE eval_node(_, _)
RECURSIVE eval_compare(_, _, _, _)

\* goes on along the chain after a false pair
compare_next_no_stop(n, ok, right, i, state) ==
    IF IsExc(ok) THEN ok ELSE eval_compare(n, right, i + 1, state)

\* lines 104-106: the pair was compared; stop at a false one, else `left = right`
compare_next(n, ok, right, i, state) ==
    IF IsExc(ok) THEN ok
    ELSE IF ~ok.v THEN BoolV(FALSE)
    ELSE eval_compare(n, right, i + 1, state)

\* lines 90-103: compare `left` with the evaluated operand `right` by operator i
compare_pair(n, left, right, i, state) ==
    IF IsExc(right) THEN right
    ELSE IF n.ops[i] \notin {"Eq", "NotEq", "Lt", "LtE", "Gt", "GtE"}
         THEN ExcV("ValueError")
    ELSE compare_next(n, PyCompare(n.ops[i], left, right), right, i, state)

\* the loop of lines 88-107: `left` is already evaluated, pair i is next
eval_compare(n, left, i, state) ==
    IF i > Len(n.ops) \/ i > Len(n.comparators) THEN BoolV(TRUE)
    ELSE compare_pair(n, left, eval_node(n.comparators[i], state), i, state)

\* lines 73-77: all(vals) / any(vals) over operands that were all evaluated
bool_op(op, vals, state) ==
    IF HasExc(vals) THEN FirstExc(vals)
    ELSE IF op = "And" THEN BoolV(\A i \in 1..Len(vals) : Truthy(vals[i], state))
    ELSE IF op = "Or" THEN BoolV(\E i \in 1..Len(vals) : Truthy(vals[i], state))
    ELSE ExcV("ValueError")

\* line 82: not <operand>
not_op(x, state) == IF IsExc(x) THEN x ELSE BoolV(~Truthy(x, state))

\* line 87: the left operand, then the chain
compare_from(n, left, state) ==
    IF IsExc(left) THEN left ELSE eval_compare(n, left, 1, state)

\* line 119: state.get(key)
subscript_get(key, state) == IF IsExc(key) THEN key ELSE DictGet(state, key, NoneV)

\* lines 131-133: state.get(key, default)
call_get(key, default, state) ==
    IF IsExc(key) THEN key
    ELSE IF IsExc(default) THEN default
    ELSE DictGet(state, key, default)

\* line 142: tuple(...)
tuple_of(vals) == IF HasExc(vals) THEN FirstExc(vals) ELSE TupleV(vals)

eval_node(n, state) ==
    CASE n.k = "Constant" -> n.value
      [] n.k = "Name" ->
           IF n.id \in {"True", "False"} THEN BoolV(n.id = "True")
           ELSE ExcV("ValueError")
      [] n.k = "BoolOp" ->
           \* every operand is evaluated before all()/any() looks at them
           bool_op(n.op, [i \in 1..Len(n.values) |-> eval_node(n.values[i], state)],
                   state)
      [] n.k = "UnaryOp" ->
           IF n.op = "Not" THEN not_op(eval_node(n.operand, state), state)
           ELSE ExcV("ValueError")
      [] n.k = "Compare" -> compare_from(n, eval_node(n.left, state), state)
      [] n.k = "Subscript" ->
           IF n.value.k = "Name" /\ n.value.id = "state"
           THEN subscript_get(eval_node(n.slice, state), state)
           ELSE ExcV("ValueError")
      [] n.k = "Call" ->
           IF /\ n.func.k = "Attribute"
              /\ n.func.value.k = "Name"
              /\ n.func.value.id = "state"
              /\ n.func.attr = "get"
           THEN IF ~(1 <= Len(n.args) /\ Len(n.args) <= 2) THEN ExcV("ValueError")
                ELSE call_get(eval_node(n.args[1], state),
                              IF Len(n.args) = 2 THEN eval_node(n.args[2], state)
                              ELSE NoneV,
                              state)
           ELSE ExcV("ValueError")
      [] n.k = "Tuple" ->
           tuple_of([i \in 1..Len(n.elts) |-> eval_node(n.elts[i], state)])
      [] OTHER -> ExcV("ValueError")

RECURSIVE StateRead(_, _)
RECURSIVE chain_read(_, _, _, _)

\* the loop of lines 88-107 from pair i on reads the state
chain_read(n, left, i, state) ==
    /\ i <= Len(n.ops) /\ i <= Len(n.comparators)
    /\ \/ StateRead(n.comparators[i], state)
       \/ /\ ~IsExc(eval_node(n.comparators[i], state))
          /\ n.ops[i] \in {"Eq", "NotEq", "Lt", "LtE", "Gt", "GtE"}
          /\ PyCompare(n.ops[i], left, eval_node(n.comparators[i], state)) = BoolV(TRUE)
          /\ chain_read(n, eval_node(n.comparators[i], state), i + 1, state)

\* the operands before operand i were all evaluated without an exception
reached(nodes, i, state) == \A j \in 1..(i - 1) : ~IsExc(eval_node(nodes[j], state))

\* eval_node(n) calls state.get (lines 119 and 133) at least once before it
\* returns or raises
StateRead(n, state) ==
    CASE n.k = "BoolOp" ->
           \E i \in 1..Len(n.values) :
               reached(n.values, i, state) /\ StateRead(n.values[i], state)
      [] n.k = "UnaryOp" -> n.op = "Not" /\ StateRead(n.operand, state)
      [] n.k = "Compare" ->
           \/ StateRead(n.left, state)
           \/ /\ ~IsExc(eval_node(n.left, state))
              /\ chain_read(n, eval_node(n.left, state), 1, state)
      [] n.k = "Subscript" ->
           /\ n.value = StateName
           /\ StateRead(n.slice, state) \/ ~IsExc(eval_node(n.slice, state))
      [] n.k = "Call" ->
           /\ n.func = Attribute(StateName, "get")
           /\ 1 <= Len(n.args) /\ Len(n.args) <= 2
           /\ \E i \in 1..(Len(n.args) + 1) :
                 /\ reached(n.args, i, state)
                 /\ i <= Len(n.args) => StateRead(n.args[i], state)
      [] n.k = "Tuple" ->
           \E i \in 1..Len(n.elts) :
               reached(n.elts, i, state) /\ StateRead(n.elts[i], state)
      [] OTHER -> FALSE

(***************************************************************************)
(* Condition texts.  A text is a sequence of chunks: a blank, a letter of   *)
(* one of the words true/false, or the body of an expression.  ast.parse is *)
(* the Python library's: ParseTable gives the tree it builds for each body. *)
(***************************************************************************)
Blank == " "
\* str.strip()
RECURSIVE LStrip(_)
LStrip(s) == IF Len(s) > 0 /\ Head(s) = Blank THEN LStrip(Tail(s)) ELSE s
RECURSIVE RStrip(_)
RStrip(s) ==
    IF Len(s) > 0 /\ s[Len(s)] = Blank THEN RStrip(SubSeq(s, 1, Len(s) - 1)) ELSE s
Strip(s) == RStrip(LStrip(s))
\* str.lower(): the bodies of the catalogue hold no upper-case letter
LowerChar(c) ==
    CASE c = "T" -> "t" [] c = "R" -> "r" [] c = "U" -> "u" [] c = "E" -> "e"
      [] c = "F" -> "f" [] c = "A" -> "a" [] c = "L" -> "l" [] c = "S" -> "s"
      [] OTHER -> c
Lower(s) == [i \in 1..Len(s) |-> LowerChar(s[i])]

\* the characters of a word joined into one string
RECURSIVE Join(_)
Join(s) == IF s = <<>> THEN "" ELSE Head(s) \o Join(Tail(s))

Word(w) ==
    CASE w = "true" -> <<"t", "r", "u", "e">>
      [] w = "TRUE" -> <<"T", "R", "U", "E">>
      [] w = "True" -> <<"T", "r", "u", "e">>
      [] w = "false" -> <<"f", "a", "l", "s", "e">>
      [] w = "False" -> <<"F", "a", "l", "s", "e">>

\* the expression bodies of the model and the tree ast.parse builds for each
ParseTable ==
    <<[src |-> "state['value'] > 5",
       tree |-> Cmp(StateSub("value"), "Gt", Constant(IntV(5)))],
      [src |-> "state['value'] >= 0",
       tree |-> Cmp(StateSub("value"), "GtE", Constant(IntV(0)))],
      [src |-> "state.get('value', 0) < 5",
       tree |-> Cmp(StateGet(<<Constant(StrV("value")), Constant(IntV(0))>>),
                    "Lt", Constant(IntV(5)))],
      [src |-> "state.get('i', 0) < 3",
       tree |-> Cmp(StateGet(<<Constant(StrV("i")), Constant(IntV(0))>>),
                    "Lt", Constant(IntV(3)))],
      [src |-> "state.get('i', 0) < 999",
       tree |-> Cmp(StateGet(<<Constant(StrV("i")), Constant(IntV(0))>>),
                    "Lt", Constant(IntV(999)))],
      [src |-> "state.get('i', 0) < 1000",
       tree |-> Cmp(StateGet(<<Constant(StrV("i")), Constant(IntV(0))>>),
                    "Lt", Constant(IntV(1000)))],
      [src |-> "state['missing'] > 5",
       tree |-> Cmp(StateSub("missing"), "Gt", Constant(IntV(5)))],
      [src |-> "state['visited'] == 1",
       tree |-> Cmp(StateSub("visited"), "Eq", Constant(IntV(1)))],
      [src |-> "not state.get('value')",
       tree |-> UnaryOp("Not", StateGet(<<Constant(StrV("value"))>>))],
      [src |-> "foo > 1",
       tree |-> Cmp(Name("foo"), "Gt", Constant(IntV(1)))],
      [src |-> "state.clear()", tree |-> StateClear],
      [src |-> "state['value'] >", tree |-> SyntaxErrorTree],
      [src |-> "state['x'] > 5", tree |-> Cmp(StateSub("x"), "Gt", IntConst(5))],
      [src |-> "state.get('i', 0) < 5",
       tree |-> Cmp(StateGet(<<StrConst("i"), IntConst(0)>>), "Lt", IntConst(5))],
      [src |-> "__import__('os').system('echo hi')",
       tree |-> Call(Attribute(Call(Name("__import__"), <<StrConst("os")>>, <<>>), "system"),
                     <<StrConst("echo hi")>>, <<>>)],
      [src |-> "state", tree |-> StateName],
      [src |-> "state['x'] + 1 > 5",
       tree |-> Cmp(BinOp(StateSub("x"), "Add", IntConst(1)), "Gt", IntConst(5))],
      [src |-> "state.get('x') and state['x'] > 5",
       tree |-> BoolOp("And", <<StateGet(<<StrConst("x")>>),
                                Cmp(StateSub("x"), "Gt", IntConst(5))>>)],
      [src |-> "state.get(-1, 1)",
       tree |-> StateGet(<<UnaryOp("USub", IntConst(1)), IntConst(1)>>)],
      [src |-> "state.get('x', default=0)",
       tree |-> Call(Attribute(StateName, "get"), <<StrConst("x")>>,
                     <<[arg |-> "default", value |-> IntConst(0)]>>)],
      [src |-> "state[foo]", tree |-> Subscript(StateName, Name("foo"))],
      [src |-> "state.get(foo)", tree |-> StateGet(<<Name("foo")>>)],
      [src |-> "state.get(state.pop('i'))",
       tree |-> StateGet(<<StatePop(<<StrConst("i")>>)>>)],
      [src |-> "state[state.clear():]",
       tree |-> Subscript(StateName, Slice(StateClear, NoNode))],
      [src |-> "state[1:state.clear()]",
       tree |-> Subscript(StateName, Slice(IntConst(1), StateClear))],
      [src |-> "state[1:foo]",
       tree |-> Subscript(StateName, Slice(IntConst(1), Name("foo")))],
      [src |-> "state['x'[state.clear()]]",
       tree |-> Subscript(StateName, Subscript(StrConst("x"), StateClear))],
      [src |-> "state.get('x'[state.pop('i', 0)])",
       tree |-> StateGet(<<Subscript(StrConst("x"), StatePop(<<StrConst("i"), IntConst(0)>>))>>)],
      [src |-> "state['x'[0]] > 0",
       tree |-> Cmp(Subscript(StateName, Subscript(StrConst("x"), IntConst(0))), "Gt", IntConst(0))],
      [src |-> "state.get('x'[0])",
       tree |-> StateGet(<<Subscript(StrConst("x"), IntConst(0))>>)],
      [src |-> "state['x'.upper]",
       tree |-> Subscript(StateName, Attribute(StrConst("x"), "upper"))],
      [src |-> "state.get('x'.upper)",
       tree |-> StateGet(<<Attribute(StrConst("x"), "upper")>>)],
      [src |-> "state['x'] / 0 > 1",
       tree |-> Cmp(BinOp(StateSub("x"), "Div", IntConst(0)), "Gt", IntConst(1))],
      [src |-> "state['value'] > 5 > foo",
       tree |-> Compare(StateSub("value"), <<"Gt", "Gt">>, <<IntConst(5), Name("foo")>>)],
      [src |-> "0 <= state.get('value', 0) < 5",
       tree |-> Compare(IntConst(0), <<"LtE", "Lt">>,
                        <<StateGet(<<StrConst("value"), IntConst(0)>>), IntConst(5)>>)],
      [src |-> "state.get('value') and state['value'] > 5",
       tree |-> BoolOp("And", <<StateGet(<<StrConst("value")>>),
                                Cmp(StateSub("value"), "Gt", IntConst(5))>>)],
      [src |-> "state.get('value', 1) or state['missing'] > 5",
       tree |-> BoolOp("Or", <<StateGet(<<StrConst("value"), IntConst(1)>>),
                               Cmp(StateSub("missing"), "Gt", IntConst(5))>>)],
      [src |-> "state['value'] + 1 > -2",
       tree |-> Cmp(BinOp(StateSub("value"), "Add", IntConst(1)), "Gt",
                    UnaryOp("USub", IntConst(2)))],
      [src |-> "state['quality_score'] >= 0.5",
       tree |-> Cmp(StateSub("quality_score"), "GtE", Constant(FloatV(1, 2)))],
      [src |-> "state['quality_score'] < 0.5 and state.get('iterations', 0) < 5",
       tree |-> BoolOp("And",
                       <<Cmp(StateSub("quality_score"), "Lt", Constant(FloatV(1, 2))),
                         Cmp(StateGet(<<StrConst("iterations"), IntConst(0)>>),
                             "Lt", IntConst(5))>>)]>>

KnownBody(c) == \E i \in 1..Len(ParseTable) : ParseTable[i].src = c
TreeOf(c) == ParseTable[CHOOSE i \in 1..Len(ParseTable) : ParseTable[i].src = c].tree

\* the tree of a text without trailing blanks
parse_body(body) ==
    IF body = <<>> \/ Head(body) = Blank THEN SyntaxErrorTree
    ELSE IF Len(body) = 1 /\ KnownBody(body[1]) THEN TreeOf(body[1])
    ELSE IF \E i \in 1..Len(body) : body[i] = Blank \/ KnownBody(body[i])
         THEN SyntaxErrorTree
    ELSE IF Join(body) \in {"True", "False"}
         THEN Constant(BoolV(Join(body) = "True"))
    ELSE Name(Join(body))

\* ast.parse(text, mode="eval").body: leading blanks are an IndentationError (a
\* SyntaxError), trailing ones are ignored; a lone word is a Name, or a Constant
\* for True and False
ast_parse(text) == parse_body(RStrip(text))

\* lines 146-149: bool(result)
as_bool(result, state) ==
    IF IsExc(result) THEN result ELSE BoolV(Truthy(result, state))

\* lines 37-41 and 146: a syntax error is a ValueError, else walk the tree
eval_parsed(node, state) ==
    IF node = SyntaxErrorTree THEN ExcV("ValueError")
    ELSE as_bool(eval_node(node, state), state)

\* lines 31-35: the words true and false, in any case, are answered at once
eval_src(src, state) ==
    IF Lower(src) = Word("true") THEN BoolV(TRUE)
    ELSE IF Lower(src) = Word("false") THEN BoolV(FALSE)
    ELSE eval_parsed(ast_parse(src), state)

\* engine.py SafeConditionEvaluator.evaluate(condition, state): a bool, or the
\* exception that leaves it
EngineEvaluate(condition, state) == eval_src(Strip(condition), state)

\* the tree eval_node walks for a condition: none for the words true and false
\* (lines 31-35), which are answered before ast.parse
walked_tree(src) ==
    IF Lower(src) \in {Word("true"), Word("false")} THEN NoNode ELSE ast_parse(src)

(***************************************************************************)
(* condition_evaluator.py, SafeConditionEvaluator: a validation pass over   *)
(* the tree, then Python's own eval with `state` the only name in scope.    *)
(* The trees are those of Python 3.9 and later: a subscript's slice is the  *)
(* key node itself, there is no ast.Index wrapper.                          *)
(***************************************************************************)
ALLOWED_COMPARE_OPS == {"Gt", "Lt", "GtE", "LtE", "Eq", "NotEq"}
ALLOWED_BOOLEAN_OPS == {"And", "Or"}
ALLOWED_BINOPS == {"Add", "Sub", "Mult", "Div", "Mod", "Pow"}
ALLOWED_UNARYOPS == {"USub", "UAdd", "Not"}

\* lines 21-47: a Constant, or a Constant under unary minus or plus signs
RECURSIVE is_constant_node(_)
is_constant_node(node) ==
    CASE node = NoNode -> FALSE
      [] node.k = "Constant" -> TRUE
      [] node.k = "UnaryOp" /\ node.op \in {"USub", "UAdd"} ->
           is_constant_node(node.operand)
      [] OTHER -> FALSE

\* hasattr(node, field) and isinstance(getattr(node, field), ast.AST): the
\* value of a Constant is a Python value, not a node
HasNode(node, field) ==
    /\ field \in DOMAIN node
    /\ node.k # "Constant"
    /\ node[field] # NoNode

\* lines 53-75: a Slice gives its lower bound when it has one, any other
\* node gives itself
unwrap(node) ==
    IF node.k = "Slice" /\ node.lower # NoNode THEN node.lower ELSE node

\* lines 94-109: the key found in the unwrapped slice
key_of_inner(inner) ==
    IF inner.k = "Constant" THEN inner
    ELSE IF HasNode(inner, "value") THEN inner.value
    ELSE IF HasNode(inner, "slice") THEN inner.slice
    ELSE inner

\* lines 78-112
get_subscript_key(sub) ==
    IF sub.slice.k = "Constant" THEN sub.slice ELSE key_of_inner(unwrap(sub.slice))

\* lines 187-190: the node of a state.get argument that is tested for constancy
arg_node(inner) == IF HasNode(inner, "value") THEN inner.value ELSE inner

\* lines 118-205: TRUE when _validate_ast returns, FALSE when it raises
RECURSIVE validate_ast(_)
validate_ast(node) ==
    CASE node.k = "BoolOp" ->
           /\ node.op \in ALLOWED_BOOLEAN_OPS
           /\ \A i \in 1..Len(node.values) : validate_ast(node.values[i])
      [] node.k = "BinOp" ->
           /\ node.op \in ALLOWED_BINOPS
           /\ validate_ast(node.left)
           /\ validate_ast(node.right)
      [] node.k = "UnaryOp" ->
           /\ node.op \in ALLOWED_UNARYOPS
           /\ validate_ast(node.operand)
      [] node.k = "Compare" ->
           /\ validate_ast(node.left)
           /\ \A i \in 1..Len(node.comparators) : validate_ast(node.comparators[i])
           /\ \A i \in 1..Len(node.ops) : node.ops[i] \in ALLOWED_COMPARE_OPS
      [] node.k = "Subscript" ->
           /\ node.value.k = "Name"
           /\ node.value.id = "state"
           /\ is_constant_node(get_subscript_key(node))
      [] node.k = "Call" ->
           /\ node.func.k = "Attribute"
           /\ node.func.value.k = "Name"
           /\ node.func.value.id = "state"
           /\ node.func.attr = "get"
           /\ node.keywords = <<>>
           /\ Len(node.args) \in {1, 2}
           /\ \A i \in 1..Len(node.args) :
                 is_constant_node(arg_node(unwrap(node.args[i])))
      [] node.k = "Name" -> node.id = "state"
      [] OTHER -> is_constant_node(node)

(***************************************************************************)
(* eval(compile(tree), {"__builtins__": {}}, {"state": state}): Python's    *)
(* evaluation of an expression, operands left to right.  A result is        *)
(* [v, st, calls]: the value (or the exception raised), the state mapping   *)
(* afterwards, and the Call nodes whose call was made, in order.            *)
(***************************************************************************)
Ret(v, r) == [v |-> v, st |-> r.st, calls |-> r.calls]
Env(st) == [v |-> NoneV, st |-> st, calls |-> <<>>]

\* the characters of a str that the expressions of the model subscript
Letters(s) == IF Len(s) = 1 THEN <<StrV(s)>> ELSE <<>>

\* items[i] for a Python index i
Index(items, i) ==
    IF -Len(items) <= i /\ i < Len(items)
    THEN items[(IF i < 0 THEN i + Len(items) ELSE i) + 1]
    ELSE ExcV("IndexError")

\* obj[key] (a slice of a str or of a list is not among the expressions)
GetItem(obj, key, st) ==
    CASE obj.t = "dict" ->
           IF ~Hashable(key) THEN ExcV("TypeError")
           ELSE IF key.t = "str" /\ key.v \in DOMAIN st THEN st[key.v]
           ELSE ExcV("KeyError")
      [] obj.t = "str" /\ Len(obj.v) <= 1 /\ key.t # "slice" ->
           IF IsNum(key) THEN Index(Letters(obj.v), Num(key)) ELSE ExcV("TypeError")
      [] obj.t \in {"list", "tuple"} /\ key.t # "slice" ->
           IF IsNum(key) THEN Index(obj.v, Num(key)) ELSE ExcV("TypeError")
      [] obj.t \in {"int", "bool", "none", "method", "slice"} -> ExcV("TypeError")

\* obj.attr for the methods the expressions of the model name
GetAttr(obj, attr) ==
    IF \/ obj.t = "dict" /\ attr \in {"get", "clear", "pop"}
       \/ obj.t = "str" /\ attr \in {"upper", "lower"}
    THEN MethV(obj, attr)
    ELSE ExcV("AttributeError")

\* l op r (a quotient, a float, is not among the values of the model)
PyBinOp(op, l, r) ==
    CASE IsNum(l) /\ IsNum(r) /\ op = "Add" -> IntV(Num(l) + Num(r))
      [] IsNum(l) /\ IsNum(r) /\ op = "Sub" -> IntV(Num(l) - Num(r))
      [] IsNum(l) /\ IsNum(r) /\ op = "Mult" -> IntV(Num(l) * Num(r))
      [] IsNum(l) /\ IsNum(r) /\ op = "Div" /\ Num(r) = 0 -> ExcV("ZeroDivisionError")
      [] IsNum(l) /\ IsNum(r) /\ op = "Mod" ->
           IF Num(r) = 0 THEN ExcV("ZeroDivisionError")
           ELSE IF Num(r) > 0 THEN IntV(Num(l) % Num(r))
           ELSE IntV(-((-Num(l)) % (-Num(r))))
      [] l.t = "str" /\ r.t = "str" /\ op = "Add" -> StrV(l.v \o r.v)
      [] l.t = r.t /\ l.t \in {"list", "tuple"} /\ op = "Add" ->
           [t |-> l.t, v |-> l.v \o r.v]
      [] l.t = "none" \/ r.t = "none" \/ l.t = "dict" \/ r.t = "dict" ->
           ExcV("TypeError")

\* -x, +x, not x
PyUnaryOp(op, x) ==
    IF IsExc(x.v) THEN x
    ELSE IF op = "Not" THEN Ret(BoolV(~Truthy(x.v, x.st)), x)
    ELSE IF ~IsNum(x.v) THEN Ret(ExcV("TypeError"), x)
    ELSE Ret(IntV(IF op = "USub" THEN -Num(x.v) ELSE Num(x.v)), x)

\* the call of a bound method of the state mapping: dict.get, dict.clear, dict.pop
Invoke(f, args, r) ==
    CASE f.v = "get" ->
           IF Len(args) \notin {1, 2} THEN Ret(ExcV("TypeError"), r)
           ELSE Ret(DictGet(r.st, args[1], IF Len(args) = 2 THEN args[2] ELSE NoneV), r)
      [] f.v = "clear" ->
           IF args # <<>> THEN Ret(ExcV("TypeError"), r)
           ELSE [v |-> NoneV, st |-> [key \in {} |-> NoneV], calls |-> r.calls]
      [] f.v = "pop" ->
           IF Len(args) \notin {1, 2} \/ ~Hashable(args[1]) THEN Ret(ExcV("TypeError"), r)
           ELSE IF args[1].t = "str" /\ args[1].v \in DOMAIN r.st
                THEN [v |-> r.st[args[1].v],
                      st |-> [key \in DOMAIN r.st \ {args[1].v} |-> r.st[key]],
                      calls |-> r.calls]
           ELSE IF Len(args) = 2 THEN Ret(args[2], r)
           ELSE Ret(ExcV("KeyError"), r)

\* f(*args) for the Call node n: only a method of the state mapping is called by
\* the expressions of the model; keyword arguments are refused by all three
Apply(n, f, a) ==
    IF IsExc(a.v) THEN a
    ELSE IF f.t # "method" THEN Ret(ExcV("TypeError"), a)
    ELSE IF n.keywords # <<>>
         THEN Ret(ExcV("TypeError"), [a EXCEPT !.calls = Append(@, n)])
    ELSE IF f.self.t = "dict"
         THEN Invoke(f, a.v.v, [a EXCEPT !.calls = Append(@, n)])
    ELSE Ret(ExcV("TypeError"), a)

RECURSIVE py_eval(_, _)
RECURSIVE py_args(_, _, _, _)
RECURSIVE py_bool(_, _, _)
RECURSIVE py_compare(_, _, _, _)

\* one more argument value, then the rest
args_step(nodes, i, acc, x) ==
    IF IsExc(x.v) THEN x ELSE py_args(nodes, i + 1, Append(acc, x.v), x)

\* the argument values of a call, left to right, as a tuple
py_args(nodes, i, acc, r) ==
    IF i > Len(nodes) THEN Ret(TupleV(acc), r)
    ELSE args_step(nodes, i, acc, py_eval(nodes[i], r))

\* `and` / `or` stop at the first operand that decides them
bool_step(n, i, x) ==
    IF IsExc(x.v) \/ i = Len(n.values) \/ (Truthy(x.v, x.st) <=> (n.op = "Or"))
    THEN x
    ELSE py_bool(n, i + 1, x)

py_bool(n, i, r) == bool_step(n, i, py_eval(n.values[i], r))

\* a comparison chain stops at the first false link
compare_link(n, i, res, right) ==
    IF IsExc(res) \/ i = Len(n.ops) THEN Ret(res, right)
    ELSE IF ~Truthy(res, right.st) THEN Ret(res, right)
    ELSE py_compare(n, i + 1, right.v, right)

compare_right(n, i, left, right) ==
    IF IsExc(right.v) THEN right
    ELSE compare_link(n, i, PyCompare(n.ops[i], left, right.v), right)

py_compare(n, i, left, r) == compare_right(n, i, left, py_eval(n.comparators[i], r))

compare_left(n, left) == IF IsExc(left.v) THEN left ELSE py_compare(n, 1, left.v, left)

binop_apply(n, left, right) ==
    IF IsExc(right.v) THEN right ELSE Ret(PyBinOp(n.op, left, right.v), right)

binop_right(n, left) ==
    IF IsExc(left.v) THEN left ELSE binop_apply(n, left.v, py_eval(n.right, left))

subscript_item(obj, key) ==
    IF IsExc(key.v) THEN key ELSE Ret(GetItem(obj, key.v, key.st), key)

subscript_key(n, obj) ==
    IF IsExc(obj.v) THEN obj ELSE subscript_item(obj.v, py_eval(n.slice, obj))

slice_of(lower, upper) ==
    IF IsExc(upper.v) THEN upper ELSE Ret(SliceV(lower, upper.v), upper)

slice_upper(n, lower) ==
    IF IsExc(lower.v) THEN lower
    ELSE slice_of(lower.v, IF n.upper = NoNode THEN Ret(NoneV, lower)
                           ELSE py_eval(n.upper, lower))

attribute_of(n, obj) == IF IsExc(obj.v) THEN obj ELSE Ret(GetAttr(obj.v, n.attr), obj)

call_args(n, f) ==
    IF IsExc(f.v) THEN f ELSE Apply(n, f.v, py_args(n.args, 1, <<>>, f))

py_eval(n, r) ==
    CASE n.k = "Constant" -> Ret(n.value, r)
      [] n.k = "Name" ->
           \* `state` is the only name in scope and there are no builtins
           IF n.id = "state" THEN Ret(DictV, r) ELSE Ret(ExcV("NameError"), r)
      [] n.k = "BoolOp" -> py_bool(n, 1, r)
      [] n.k = "BinOp" -> binop_right(n, py_eval(n.left, r))
      [] n.k = "UnaryOp" -> PyUnaryOp(n.op, py_eval(n.operand, r))
      [] n.k = "Compare" -> compare_left(n, py_eval(n.left, r))
      [] n.k = "Subscript" -> subscript_key(n, py_eval(n.value, r))
      [] n.k = "Slice" ->
           slice_upper(n, IF n.lower = NoNode THEN Ret(NoneV, r)
                          ELSE py_eval(n.lower, r))
      [] n.k = "Attribute" -> attribute_of(n, py_eval(n.value, r))
      [] n.k = "Call" -> call_args(n, py_eval(n.func, r))

\* an `except` clause that lets the exception through as it is
Reraised(text, cause) == [t |-> "exc", v |-> cause, text |-> text, cause |-> cause]

\* lines 225-226: an exception of any class leaves evaluate as
\* ValueError(f"Invalid or unsafe condition: {condition}. Error: {e}")
Invalid(text, cause) == [t |-> "exc", v |-> "ValueError", text |-> text, cause |-> cause]

\* lines 218-224: bool(eval(...))
checked_bool(condition, r) ==
    [v |-> IF IsExc(r.v) THEN Invalid(condition, r.v.v) ELSE BoolV(Truthy(r.v, r.st)),
     st |-> r.st, calls |-> r.calls]

\* condition_evaluator.py SafeConditionEvaluator.evaluate(condition, state), from
\* the parsed tree on: the bool or the ValueError, the state mapping afterwards,
\* the calls made
evaluate_tree(condition, tree, st) ==
    IF tree = SyntaxErrorTree THEN Ret(Invalid(condition, "SyntaxError"), Env(st))
    ELSE IF ~validate_ast(tree) THEN Ret(Invalid(condition, "TypeError"), Env(st))
    ELSE checked_bool(condition, py_eval(tree, Env(st)))

evaluate(condition, st) == evaluate_tree(condition, ast_parse(condition), st)

(***************************************************************************)
(* Objects.  The state of a run is a Python dict, mutated in place by node  *)
(* functions; the heap maps an object's identity to its content, so that    *)
(* two references to one object can be told from two equal objects.  A dict *)
(* cell is a value or a reference [t |-> "ref", v |-> identity] to a list.  *)
(***************************************************************************)
RefV(id) == [t |-> "ref", v |-> id]
DictObj(cells) == [t |-> "dict", v |-> cells]
ListObj(items) == [t |-> "list", v |-> items]
EmptyCells == [key \in {} |-> NoneV]
SetCell(cells, key, val) ==
    [x \in DOMAIN cells \cup {key} |-> IF x = key THEN val ELSE cells[x]]

\* the keys of a dict that hold a reference, in a fixed order
RECURSIVE KeySeq(_)
KeySeq(S) ==
    IF S = {} THEN <<>>
    ELSE LET key == CHOOSE x \in S : \A y \in S : StrRank(x) <= StrRank(y)
         IN <<key>> \o KeySeq(S \ {key})
RefKeys(cells) == KeySeq({key \in DOMAIN cells : cells[key].t = "ref"})

\* copy.copy(state): a new dict whose cells refer to the same nested objects
ShallowCopy(heap, id) ==
    [heap |-> Append(heap, heap[id]), ref |-> Len(heap) + 1]

\* no copy at all: the same object
NoCopy(heap, id) == [heap |-> heap, ref |-> id]

RECURSIVE CopyCells(_, _, _)
CopyCells(heap, cells, keys) ==
    IF keys = <<>> THEN [heap |-> heap, cells |-> cells]
    ELSE LET h2 == Append(heap, heap[cells[Head(keys)].v])
         IN CopyCells(h2, [cells EXCEPT ![Head(keys)] = RefV(Len(h2))], Tail(keys))

\* copy.deepcopy(state): a new dict and a new object for every nested one
NewDict(r) == [heap |-> Append(r.heap, DictObj(r.cells)), ref |-> Len(r.heap) + 1]
DeepCopy(heap, id) == NewDict(CopyCells(heap, heap[id].v, RefKeys(heap[id].v)))

\* the mapping an object stands for, nested lists by value
Deref(heap, id) ==
    LET cells == heap[id].v
    IN [key \in DOMAIN cells |->
          IF cells[key].t = "ref" THEN ListV(heap[cells[key].v].v) ELSE cells[key]]

\* every identity reachable from a dict, itself included
Reach(heap, id) ==
    {id} \cup {heap[id].v[key].v : key \in {x \in DOMAIN heap[id].v : heap[id].v[x].t = "ref"}}

(***************************************************************************)
(* Node functions: the registry is supplied from outside the engine.  Each  *)
(* kind is one shape of callable the contract allows: it returns the object *)
(* it was given (mutated in place or not), returns a new object, or raises. *)
(***************************************************************************)
NodeKinds == {"noop", "set_value", "inc", "append", "replace", "raise"}

(***************************************************************************)
(* nodes.py, the node functions of the code-review workflow.  The text under *)
(* state["code"] is a str that carries what the analysis of nodes.py and     *)
(* tools.py finds in it: its functions in order, each by the number of kinds *)
(* of issue the detectors of tools.py report in its source and the number of *)
(* control-flow keywords count_control_flow counts.                          *)
(***************************************************************************)
Source(issues, flow) == [issues |-> issues, flow |-> flow]
CodeV(functions) == [t |-> "str", v |-> "code", functions |-> functions]

\* state[key] = items, a new list
StoreList(heap, id, key, items) ==
    [Append(heap, ListObj(items)) EXCEPT
        ![id] = DictObj(SetCell(heap[id].v, key, RefV(Len(heap) + 1)))]

\* state.get(key, []), a list when the key is there
ListAt(heap, id, key) ==
    IF key \in DOMAIN heap[id].v THEN heap[heap[id].v[key].v].v ELSE <<>>

\* the list state[key] is changed in place, when the key is there
UpdateList(heap, id, key, items) ==
    IF key \in DOMAIN heap[id].v
    THEN [heap EXCEPT ![heap[id].v[key].v] = ListObj(items)]
    ELSE heap

\* lines 16-21 and 41-45: the functions found in a str, none in anything else;
\* a function dict {name, source, line_start}, the keys set later not yet there
found_functions(code) ==
    IF code.t = "str" /\ "functions" \in DOMAIN code
    THEN [i \in 1..Len(code.functions) |->
            [t |-> "dict", v |-> i, source |-> code.functions[i],
             complexity_score |-> <<>>, issues |-> <<>>, suggestions |-> <<>>]]
    ELSE <<>>

\* nodes.py extract_functions(state)
extract_functions(heap, id) ==
    StoreList(heap, id, "functions",
              found_functions(IF "code" \in DOMAIN heap[id].v
                              THEN heap[id].v["code"] ELSE StrV("")))

\* nodes.py check_complexity(state): func["complexity_score"] = 1 + count
check_complexity(heap, id) ==
    UpdateList(heap, id, "functions",
               [i \in 1..Len(ListAt(heap, id, "functions")) |->
                   [ListAt(heap, id, "functions")[i] EXCEPT
                       !.complexity_score =
                           <<1 + ListAt(heap, id, "functions")[i].source.flow>>]])

\* the (name, issue) pairs of the functions from i on, line 122
RECURSIVE issue_pairs(_, _)
issue_pairs(functions, i) ==
    IF i > Len(functions) THEN <<>>
    ELSE [j \in 1..functions[i].source.issues |-> TupleV(<<IntV(i), IntV(j)>>)]
             \o issue_pairs(functions, i + 1)

\* nodes.py detect_issues(state): func["issues"] = func_issues for each function,
\* state["issues"] = issues
detect_issues(heap, id) ==
    StoreList(UpdateList(heap, id, "functions",
                  [i \in 1..Len(ListAt(heap, id, "functions")) |->
                      [ListAt(heap, id, "functions")[i] EXCEPT
                          !.issues = <<ListAt(heap, id, "functions")[i].source.issues>>]]),
              id, "issues", issue_pairs(ListAt(heap, id, "functions"), 1))

\* lines 146-148: 1.0 - total_issues / max_possible_issues within [0.0, 1.0],
\* 1.0 without functions
quality_score(total_issues, max_possible_issues) ==
    IF max_possible_issues > 0
    THEN (IF total_issues >= max_possible_issues THEN FloatV(0, 1)
          ELSE FloatV(max_possible_issues - total_issues, max_possible_issues))
    ELSE FloatV(1, 1)

\* lines 134-144: func["suggestions"] = func_suggestions, as their number
func_suggestions(func) ==
    (IF func.complexity_score # <<>> /\ func.complexity_score[1] > 10 THEN 1 ELSE 0)
        + (IF func.issues # <<>> /\ func.issues[1] > 0 THEN 1 ELSE 0)

\* lines 150-151 after the loop of lines 134-144
suggest_scored(heap, id, functions) ==
    StoreList(UpdateList([heap EXCEPT ![id] = DictObj(SetCell(heap[id].v, "quality_score",
                              quality_score(Len(ListAt(heap, id, "issues")),
                                            Len(functions) * 5)))],
                         id, "functions",
                         [i \in 1..Len(functions) |->
                             [functions[i] EXCEPT
                                 !.suggestions = <<func_suggestions(functions[i])>>]]),
              id, "suggestions",
              [i \in 1..Len(functions) |->
                  TupleV(<<IntV(i), IntV(func_suggestions(functions[i]))>>)])

\* leaves state["iterations"] as it is
suggest_uncounted(h, id, iterations) == [heap |-> h, ref |-> id, raised |-> FALSE]

\* line 152: state["iterations"] = state.get("iterations", 0) + 1
suggest_counted(h, id, iterations) ==
    IF IsNum(iterations)
    THEN [heap |-> [h EXCEPT ![id] = DictObj(SetCell(h[id].v, "iterations",
                                                     IntV(Num(iterations) + 1)))],
          ref |-> id, raised |-> FALSE]
    ELSE [heap |-> h, ref |-> id, raised |-> TRUE,
          text |-> "can only concatenate str (not \"int\") to str"]

\* nodes.py suggest_improvements(state)
suggest_improvements(heap, id) ==
    suggest_counted(suggest_scored(heap, id, ListAt(heap, id, "functions")), id,
                    IF "iterations" \in DOMAIN heap[id].v
                    THEN heap[id].v["iterations"] ELSE IntV(0))

\* node_functions[name](state): [heap, ref, raised]
CallNode(kind, heap, id) ==
    LET cells == heap[id].v
        same(h) == [heap |-> h, ref |-> id, raised |-> FALSE]
    IN CASE kind = "noop" -> same(heap)
         [] kind = "set_value" ->
              \* state["value"] = 10; return state
              same([heap EXCEPT ![id] = DictObj(SetCell(cells, "value", IntV(10)))])
         [] kind = "inc" ->
              \* state["i"] = state.get("i", 0) + 1; return state
              same([heap EXCEPT ![id] = DictObj(SetCell(cells, "i",
                      IntV((IF "i" \in DOMAIN cells THEN cells["i"].v ELSE 0) + 1)))])
         [] kind = "append" ->
              \* state["visited"].append("x") while the list is short;
              \* state["visited"] = ["x"] when there is none
              IF "visited" \in DOMAIN cells
              THEN LET lid == cells["visited"].v
                   IN IF Len(heap[lid].v) < MaxList
                      THEN same([heap EXCEPT ![lid] =
                                    ListObj(Append(heap[lid].v, StrV("x")))])
                      ELSE same(heap)
              ELSE LET h2 == Append(heap, ListObj(<<StrV("x")>>))
                   IN same([h2 EXCEPT ![id] =
                              DictObj(SetCell(cells, "visited", RefV(Len(h2))))])
         [] kind = "replace" ->
              \* return {**state, "done": True}
              [heap |-> Append(heap, DictObj(SetCell(cells, "done", BoolV(TRUE)))),
               ref |-> Len(heap) + 1, raised |-> FALSE]
         [] kind = "raise" ->
              \* raise ValueError("boom"): str(e) is the text
              [heap |-> heap, ref |-> id, raised |-> TRUE, text |-> "boom"]
         [] kind = "extract_functions" -> same(extract_functions(heap, id))
         [] kind = "check_complexity" -> same(check_complexity(heap, id))
         [] kind = "detect_issues" -> same(detect_issues(heap, id))
         [] kind = "suggest_improvements" -> suggest_improvements(heap, id)
         [] kind = "end_node" -> same(heap)

(***************************************************************************)
(* engine.py, WorkflowEngine.execute.                                       *)
(***************************************************************************)
\* Optional[str]: <<>> is None, <<n>> is the name n
NoName == <<>>
Some(n) == <<n>>

\* f"{current_node}->{next_node}"
condition_key(src, dst) == src \o "->" \o dst

LogEntry(stp, node, entry, exit, decision) ==
    [step |-> stp, node_name |-> node, entry_state |-> entry,
     exit_state |-> exit, decision |-> decision]

NoError == [type |-> "", kind |-> "", subject |-> ""]
\* an exception leaving execute: its class, where in execute it arose, and the node
\* or edge its message names ("" when the message names none)
Raised(type, kind, subject) == [type |-> type, kind |-> kind, subject |-> subject]

\* the outcome of the guard of edge (cur, nxt): line 228-235
GuardOutcome(graph, cur, nxt, pystate) ==
    IF condition_key(cur, nxt) \in DOMAIN graph.conditions
    THEN EngineEvaluate(graph.conditions[condition_key(cur, nxt)], pystate)
    ELSE BoolV(TRUE)

\* `except ValueError as e: raise ValueError(f"Invalid condition for {key}: ...")`;
\* any other exception class passes through the handler untouched
GuardError(exc, key) ==
    IF exc.v = "ValueError" THEN Raised("ValueError", "GuardFailure", key)
    ELSE Raised(exc.v, "GuardFailure", "")

RECURSIVE Decide(_, _, _, _, _, _)

\* settles for the first successor whose guard holds and leaves the guards of
\* the later ones alone
decide_one_first(graph, cur, next_nodes, pystate, i, decision, r) ==
    IF IsExc(r)
    THEN [error |-> GuardError(r, condition_key(cur, next_nodes[i])),
          decision |-> decision]
    ELSE IF r.v THEN [error |-> NoError, decision |-> Append(decision, next_nodes[i])]
    ELSE Decide(graph, cur, next_nodes, pystate, i + 1, decision)

\* lines 230-235 for successor i, whose guard gave r
decide_one(graph, cur, next_nodes, pystate, i, decision, r) ==
    IF IsExc(r)
    THEN [error |-> GuardError(r, condition_key(cur, next_nodes[i])),
          decision |-> decision]
    ELSE Decide(graph, cur, next_nodes, pystate, i + 1,
                IF r.v THEN Append(decision, next_nodes[i]) ELSE decision)

\* the for loop of lines 226-235 from successor i on, `decision` so far
Decide(graph, cur, next_nodes, pystate, i, decision) ==
    IF i > Len(next_nodes) THEN [error |-> NoError, decision |-> decision]
    ELSE decide_one(graph, cur, next_nodes, pystate, i, decision,
                    GuardOutcome(graph, cur, next_nodes[i], pystate))

\* goes on with the last satisfied successor instead of the first
NextNodeLast(decision) == IF decision # <<>> THEN Some(decision[Len(decision)]) ELSE NoName

\* `current_node = decision[0] if decision else None`
NextNode(decision) == IF decision # <<>> THEN Some(decision[1]) ELSE NoName

\* evaluates the guards against the snapshot taken before the node function ran
GuardStateEntry(heap, entry, live) == Deref(heap, entry)

\* the state the guards of a visit are evaluated against (line 230): the live
\* state after the node function returned
GuardState(heap, entry, live) == Deref(heap, live)

\* a run's program point and variables
RunAt(p, e, h, st, lg, cur, stp, inv) ==
    [pc |-> p, error |-> e, heap |-> h, state |-> st, log |-> lg,
     current_node |-> cur, step |-> stp, invocations |-> inv]

\* starts the log over with every visit instead of appending to it
body_decided_reset(h, st, cur, stp, lg, inv, entry, exit, d) ==
    IF d.error # NoError
    THEN RunAt("raised", d.error, h, st, lg, Some(cur), stp, inv)
    ELSE RunAt("while", NoError, h, st, <<LogEntry(stp, cur, entry, exit, d.decision)>>,
               NextNode(d.decision), stp, inv)

\* lines 237-248: the guards are decided; log the visit and move on
body_decided(h, st, cur, stp, lg, inv, entry, exit, d) ==
    IF d.error # NoError
    THEN RunAt("raised", d.error, h, st, lg, Some(cur), stp, inv)
    ELSE RunAt("while", NoError, h, st,
               Append(lg, LogEntry(stp, cur, entry, exit, d.decision)),
               NextNode(d.decision), stp, inv)

\* breaks out of the loop at a node without successors without logging the visit
body_edges_unlogged(graph, h, st, cur, stp, lg, inv, entry, exit, next_nodes) ==
    IF next_nodes = <<>>
    THEN RunAt("exit", NoError, h, st, lg, Some(cur), stp, inv)
    ELSE body_decided(h, st, cur, stp, lg, inv, entry, exit,
                      Decide(graph, cur, next_nodes, GuardState(h, entry, st), 1, <<>>))

\* lines 210-235: the successors of the node; none means log and break
body_edges(graph, h, st, cur, stp, lg, inv, entry, exit, next_nodes) ==
    IF next_nodes = <<>>
    THEN RunAt("exit", NoError, h, st,
               Append(lg, LogEntry(stp, cur, entry, exit, <<>>)), Some(cur), stp, inv)
    ELSE body_decided(h, st, cur, stp, lg, inv, entry, exit,
                      Decide(graph, cur, next_nodes, GuardState(h, entry, st), 1, <<>>))

\* line 209: exit_state = copy.deepcopy(state)
body_exit(graph, cur, stp, lg, inv, entry, live, exit) ==
    body_edges(graph, exit.heap, live, cur, stp, lg, inv, entry, exit.ref,
               IF cur \in DOMAIN graph.edges THEN graph.edges[cur] ELSE <<>>)

\* calls the node function and drops what it returns: `state` stays the object
\* it was
body_called_discard(graph, st, cur, stp, lg, inv, entry, out) ==
    IF out.raised
    THEN RunAt("raised",
               [type |-> "RuntimeError", kind |-> "NodeExecutionFailure",
                subject |-> cur, text |-> out.text],
               out.heap, st, lg, Some(cur), stp, inv)
    ELSE body_exit(graph, cur, stp, lg, inv, entry, st, DeepCopy(out.heap, st))

\* swallows the exception of a node function and goes on with the node's edges
body_called_swallow(graph, st, cur, stp, lg, inv, entry, out) ==
    body_exit(graph, cur, stp, lg, inv, entry, out.ref, DeepCopy(out.heap, out.ref))

\* lines 202-207: the node function returned or raised;
\* `raise RuntimeError(f"Error executing node {current_node}: {str(e)}")`
body_called(graph, st, cur, stp, lg, inv, entry, out) ==
    IF out.raised
    THEN RunAt("raised",
               [type |-> "RuntimeError", kind |-> "NodeExecutionFailure",
                subject |-> cur, text |-> out.text],
               out.heap, st, lg, Some(cur), stp, inv)
    ELSE body_exit(graph, cur, stp, lg, inv, entry, out.ref,
                   DeepCopy(out.heap, out.ref))

\* skips a node that has no function and goes on with its edges
body_entered_skip(graph, fns, st, cur, stp, lg, inv, entry) ==
    IF cur \notin DOMAIN fns
    THEN body_exit(graph, cur, stp, lg, inv, entry.ref, st, DeepCopy(entry.heap, st))
    ELSE body_called(graph, st, cur, stp, lg, inv + 1, entry.ref,
                     CallNode(fns[cur], entry.heap, st))

\* lines 195-204: step += 1, the entry snapshot is taken, the function looked up
body_entered(graph, fns, st, cur, stp, lg, inv, entry) ==
    IF cur \notin DOMAIN fns
    THEN RunAt("raised", Raised("ValueError", "MissingNodeFunction", cur),
               entry.heap, st, lg, Some(cur), stp, inv)
    ELSE body_called(graph, st, cur, stp, lg, inv + 1, entry.ref,
                     CallNode(fns[cur], entry.heap, st))

\* visits the node without looking it up in graph.nodes
BodyUnchecked(graph, fns, h, st, cur, stp, lg, inv) ==
    body_entered(graph, fns, st, cur, stp + 1, lg, inv, DeepCopy(h, st))

\* one pass through the body of the while loop (lines 192-248) for a run at
\* node cur: the run's next program point and variables
Body(graph, fns, h, st, cur, stp, lg, inv) ==
    IF cur \notin graph.nodes
    THEN RunAt("raised", Raised("ValueError", "UnknownNode", cur),
               h, st, lg, Some(cur), stp, inv)
    ELSE body_entered(graph, fns, st, cur, stp + 1, lg, inv, DeepCopy(h, st))

(***************************************************************************)
(* The runs of the model: a graph, a node-function registry and an initial  *)
(* state, drawn from the families below.                                    *)
(***************************************************************************)
Text(body) == <<body>>
Padded(text) == <<Blank>> \o text \o <<Blank>>

\* guards that evaluate to a bool whatever the state holds, or raise
Guards ==
    {Word("true"), Padded(Word("TRUE")), Word("false"),
     Text("state['value'] > 5"), Padded(Text("state['value'] > 5")),
     Text("state['value'] >= 0"), Text("state.get('value', 0) < 5"),
     Text("state['missing'] > 5"), Text("state['visited'] == 1"),
     Text("not state.get('value')"), Text("foo > 1"), Text("state.clear()"),
     Text("state['value'] >")}
\* one guard, or none: <<g>> or <<>>
GuardOpt == {<<>>} \cup {<<g>> : g \in Guards}
LoopGuardOpt ==
    {<<>>, <<Word("true")>>, <<Text("state.get('i', 0) < 3")>>,
     <<Text("state.get('i', 0) < 999")>>, <<Text("state.get('i', 0) < 1000")>>}

\* graph.conditions from optional guards per edge
Conditions(opts) ==
    [key \in {condition_key(e[1], e[2]) : e \in {x \in DOMAIN opts : opts[x] # <<>>}} |->
        opts[CHOOSE e \in DOMAIN opts : opts[e] # <<>> /\ condition_key(e[1], e[2]) = key][1]]

Graph(nodes, edges, conditions, start) ==
    [nodes |-> nodes, edges |-> edges, conditions |-> conditions, start_node |-> start]

\* a registry: "absent" leaves the name unregistered
Registry(kinds) ==
    [n \in {x \in DOMAIN kinds : kinds[x] # "absent"} |-> kinds[n]]

Empty == <<DictObj(EmptyCells)>>
InitialHeaps ==
    {Empty, <<ListObj(<<StrV("s")>>), DictObj(SetCell(EmptyCells, "visited", RefV(1)))>>}
    \cup {<<DictObj(SetCell(EmptyCells, "value", IntV(n)))>> : n \in 0..MaxInitValue}

Run(g, kinds, h) == [graph |-> g, node_functions |-> Registry(kinds), heap |-> h]

\* a -> b -> c without conditions, every kind of node function
ChainRuns ==
    {Run(Graph({"a", "b", "c"}, [a |-> <<"b">>, b |-> <<"c">>], <<>>, "a"),
         [a |-> ka, b |-> kb, c |-> kc], h) :
        ka \in NodeKinds \cup {"absent"}, kb \in NodeKinds \cup {"absent"},
        kc \in {"noop", "append"}, h \in InitialHeaps}

\* a with two declared successors, each edge guarded or not; "z" is no node
BranchRuns ==
    {Run(Graph({"a", "b", "c"}, [a |-> <<x, y>>],
               Conditions([e \in {<<"a", x>>, <<"a", "c">>} |->
                              IF e[2] = "c" THEN gc ELSE gx]), "a"),
         [a |-> ka, b |-> "noop", c |-> "noop"], h) :
        x \in {"b", "z"}, y \in {"b", "c"}, gx \in GuardOpt, gc \in GuardOpt,
        ka \in {"set_value", "noop"}, h \in InitialHeaps}
    \cup
    {Run(Graph({"a", "b", "c"}, [a |-> <<"c", "b">>],
               Conditions([e \in {<<"a", "b">>, <<"a", "c">>} |->
                              IF e[2] = "c" THEN gc ELSE gx]), "a"),
         [a |-> "set_value", b |-> "noop", c |-> "noop"], Empty) :
        gx \in GuardOpt, gc \in GuardOpt}

\* a self-loop on a counting node, with or without a way out, and a two-node cycle
LoopRuns ==
    {Run(Graph({"a", "b"}, [a |-> <<"a">>], Conditions([x \in {<<"a", "a">>} |-> g]), "a"),
         [a |-> "inc", b |-> "noop"], Empty) : g \in LoopGuardOpt}
    \cup
    {Run(Graph({"a", "b"}, [a |-> <<"a", "b">>],
               Conditions([x \in {<<"a", "a">>} |-> <<Text("state.get('i', 0) < 3")>>]), "a"),
         [a |-> "inc", b |-> kb], Empty) : kb \in {"noop", "append"}}
    \cup
    {Run(Graph({"a", "b"}, [a |-> <<"b">>, b |-> <<"a">>],
               Conditions([x \in {<<"b", "a">>} |-> g]), "a"),
         [a |-> "inc", b |-> "append"], Empty) :
        g \in {<<Padded(Word("TRUE"))>>, <<Text("state.get('i', 0) < 3")>>}}

\* a -> b under one guard that chains comparisons, joins operands with and / or,
\* or does arithmetic
CompoundGuards ==
    {Text("state['value'] > 5 > foo"), Text("0 <= state.get('value', 0) < 5"),
     Text("state.get('value') and state['value'] > 5"),
     Text("state.get('value', 1) or state['missing'] > 5"),
     Text("state['value'] + 1 > -2")}
CompoundRuns ==
    {Run(Graph({"a", "b"}, [a |-> <<"b">>], Conditions([x \in {<<"a", "b">>} |-> <<g>>]),
               "a"),
         [a |-> ka, b |-> "noop"], h) :
        g \in CompoundGuards, ka \in {"noop", "set_value"}, h \in InitialHeaps}

\* n1 -> n2 -> ... without conditions, as long as the step limit and one shorter
NodeName(i) == "n" \o ToString(i)
LongChain(len) ==
    Graph({NodeName(i) : i \in 1..len},
          [x \in {NodeName(i) : i \in 1..(len - 1)} |->
              <<NodeName(1 + CHOOSE i \in 1..(len - 1) : NodeName(i) = x)>>],
          <<>>, NodeName(1))
LongChainRuns ==
    {Run(LongChain(len), [x \in {NodeName(i) : i \in 1..len} |-> "noop"], Empty) :
        len \in {MAX_STEPS - 1, MAX_STEPS}}

\* the code-review workflow of tests/test_engine.py, lines 36-65, on a text with
\* no function, with functions that have few issues, half of the possible ones,
\* or more, on something that is no text, and with or without "iterations"
ReviewNodes ==
    {"extract_functions", "check_complexity", "detect_issues", "suggest_improvements",
     "end_node"}
ReviewGraph ==
    Graph(ReviewNodes,
          [extract_functions |-> <<"check_complexity">>,
           check_complexity |-> <<"detect_issues">>,
           detect_issues |-> <<"suggest_improvements">>,
           suggest_improvements |-> <<"suggest_improvements", "end_node">>],
          Conditions([e \in {<<"suggest_improvements", "end_node">>,
                             <<"suggest_improvements", "suggest_improvements">>} |->
              IF e[2] = "end_node"
              THEN <<Text("state['quality_score'] >= 0.5")>>
              ELSE <<Text("state['quality_score'] < 0.5 and state.get('iterations', 0) < 5")>>]),
          "extract_functions")
Codes ==
    {CodeV(<<>>), CodeV(<<Source(0, 0)>>), CodeV(<<Source(3, 12)>>),
     CodeV(<<Source(3, 0), Source(2, 0)>>), CodeV(<<Source(3, 0), Source(3, 12)>>),
     IntV(5)}
ReviewStates ==
    {EmptyCells}
    \cup {SetCell(EmptyCells, "code", c) : c \in Codes}
    \cup {SetCell(SetCell(EmptyCells, "code", c), "iterations", n) :
             c \in Codes, n \in {IntV(-1), IntV(0), IntV(7), StrV("x")}}
ReviewRuns ==
    {Run(ReviewGraph, [n \in ReviewNodes |-> n], <<DictObj(cells)>>) :
        cells \in ReviewStates}

\* a start node that is not in graph.nodes
StrayRuns ==
    {Run(Graph({"a", "b"}, [a |-> <<"b">>], <<>>, "z"), [a |-> "noop", b |-> "noop"], h) :
        h \in InitialHeaps}

\* node names that hold the "->" of the condition keys: the edges (a, b->c) and
\* (a->b, c), the second one guarded
ArrowNodes == {"a", "a->b", "b->c", "c"}
ArrowRuns ==
    {Run(Graph(ArrowNodes,
               [src \in {"a", "a->b"} |-> IF src = "a" THEN <<"b->c">> ELSE <<"c">>],
               Conditions([e \in {<<"a->b", "c">>} |-> <<g>>]), start),
         [n \in ArrowNodes |-> "noop"], Empty) :
        start \in {"a", "a->b"}, g \in {Word("false"), Word("true")}}

Runs ==
    ChainRuns \cup BranchRuns \cup LoopRuns \cup CompoundRuns \cup LongChainRuns
        \cup ReviewRuns \cup StrayRuns \cup ArrowRuns

VARIABLES
    graph,          \* the GraphDefinition passed to execute
    node_functions, \* self.node_functions: name -> kind of callable
    initial_state,  \* the identity of the mapping passed to execute
    heap,           \* identity -> object
    state,          \* the identity of the run's live state
    log,            \* the list of LogEntry
    current_node,   \* Optional[str]
    step,
    pc,             \* "start", "while", "exit", "returned", "raised"
    error,          \* the exception that left execute, NoError if none
    invocations,    \* how many node functions were called
    \* one call of condition_evaluator.py's evaluate(condition, state)
    condition,      \* the text
    eval_state,     \* the mapping passed as `state`
    tree,           \* ast.parse(condition, mode="eval").body, NoNode before
    eval_pc,        \* "idle", "parse", "validate", "eval", "returned", "raised"
    result,         \* the bool returned or the ValueError raised
    executed,       \* the Call nodes whose call eval made
    \* concurrent calls of execute on one engine and one graph
    calls,          \* call -> its local variables
    alone,          \* what the call returns or raises when it runs by itself
    \* main.py
    payload,        \* the JSON body of a POST /graph/create
    run_record      \* the row of the run in the runs table, None before it is reserved

run_vars == <<graph, node_functions, initial_state, heap, state, log, current_node,
              step, pc, error, invocations>>
eval_vars == <<condition, eval_state, tree, eval_pc, result, executed>>
service_vars == <<calls, alone, payload, run_record>>
vars == <<run_vars, eval_vars, service_vars>>

Init ==
    /\ \E r \in Runs :
          /\ graph = r.graph
          /\ node_functions = r.node_functions
          /\ heap = r.heap
          /\ initial_state = Len(r.heap)
    /\ state = 0
    /\ log = <<>>
    /\ current_node = NoName
    /\ step = 0
    /\ pc = "start"
    /\ error = NoError
    /\ invocations = 0
    /\ condition = <<>>
    /\ eval_state = EmptyCells
    /\ tree = NoNode
    /\ eval_pc = "idle"
    /\ result = NoneV
    /\ executed = <<>>
    /\ calls = <<>>
    /\ alone = NoneV
    /\ payload = NoneV
    /\ run_record = NoneV

\* lines 183-189: copy the initial state, empty log, start node, step 0
Begin ==
    /\ pc = "start"
    /\ heap' = DeepCopy(heap, initial_state).heap
    /\ state' = Len(heap')
    /\ log' = <<>>
    /\ current_node' = Some(graph.start_node)
    /\ step' = 0
    /\ pc' = "while"
    /\ UNCHANGED <<graph, node_functions, initial_state, error, invocations>>
    /\ UNCHANGED eval_vars
    /\ UNCHANGED service_vars

\* lets the loop run one visit past the bound
LoopTestInclusive == current_node # NoName /\ step <= MAX_STEPS

\* forgets the bound
LoopTestUnbounded == current_node # NoName

\* line 191: `while current_node is not None and step < max_steps`
LoopTest == current_node # NoName /\ step < MAX_STEPS

\* an iteration that takes the visited node's edges out of the graph
IterateDraining ==
    /\ pc = "while"
    /\ LoopTest
    /\ LET r == Body(graph, node_functions, heap, state, current_node[1], step, log,
                     invocations)
       IN /\ pc' = r.pc
          /\ error' = r.error
          /\ heap' = r.heap
          /\ state' = r.state
          /\ log' = r.log
          /\ current_node' = r.current_node
          /\ step' = r.step
          /\ invocations' = r.invocations
    /\ graph' = [graph EXCEPT !.edges =
                    [n \in DOMAIN graph.edges \ {current_node[1]} |-> graph.edges[n]]]
    /\ UNCHANGED <<node_functions, initial_state>>
    /\ UNCHANGED eval_vars
    /\ UNCHANGED service_vars

\* lines 192-248: one iteration of the loop
Iterate ==
    /\ pc = "while"
    /\ LoopTest
    /\ LET r == Body(graph, node_functions, heap, state, current_node[1], step, log,
                     invocations)
       IN /\ pc' = r.pc
          /\ error' = r.error
          /\ heap' = r.heap
          /\ state' = r.state
          /\ log' = r.log
          /\ current_node' = r.current_node
          /\ step' = r.step
          /\ invocations' = r.invocations
    /\ UNCHANGED <<graph, node_functions, initial_state>>
    /\ UNCHANGED eval_vars
    /\ UNCHANGED service_vars

\* lines 250-253: after the loop, by its test or by break
Finish ==
    /\ \/ pc = "exit"
       \/ pc = "while" /\ ~LoopTest
    /\ IF step >= MAX_STEPS
       THEN /\ pc' = "raised"
            /\ error' = Raised("RuntimeError", "StepLimitExceeded", "")
       ELSE /\ pc' = "returned"
            /\ error' = NoError
    /\ UNCHANGED <<graph, node_functions, initial_state, heap, state, log,
                   current_node, step, invocations>>
    /\ UNCHANGED eval_vars
    /\ UNCHANGED service_vars

Next == Begin \/ Iterate \/ Finish

Spec == Init /\ [][Next]_vars

(***************************************************************************)
(* Calls of condition_evaluator.py's SafeConditionEvaluator.evaluate: every *)
(* expression of the model against every mapping below, one step for each   *)
(* of the three calls in its try block.                                     *)
(***************************************************************************)
Expressions ==
    {Text(ParseTable[i].src) : i \in 1..Len(ParseTable)}
    \cup {Word("true"), Word("TRUE"), Word("True"), Word("false"), Word("False"),
          Padded(Word("True")),
          <<Blank, "state">>, <<"state", Blank>>}

Mappings ==
    {EmptyCells,
     SetCell(EmptyCells, "x", IntV(10)),
     SetCell(SetCell(EmptyCells, "x", IntV(1)), "i", IntV(1)),
     SetCell(SetCell(EmptyCells, "x", IntV(0)), "i", IntV(0)),
     SetCell(EmptyCells, "visited", ListV(<<StrV("s")>>))}
    \cup {SetCell(EmptyCells, "value", IntV(n)) : n \in 0..MaxInitValue}

EvalInit ==
    /\ graph = Graph({"a"}, [a |-> <<>>], <<>>, "a")
    /\ node_functions = Registry([a |-> "noop"])
    /\ heap = Empty
    /\ initial_state = 1
    /\ state = 0
    /\ log = <<>>
    /\ current_node = NoName
    /\ step = 0
    /\ pc = "idle"
    /\ error = NoError
    /\ invocations = 0
    /\ condition \in Expressions
    /\ eval_state \in Mappings
    /\ tree = NoNode
    /\ eval_pc = "parse"
    /\ result = NoneV
    /\ executed = <<>>
    /\ calls = <<>>
    /\ alone = NoneV
    /\ payload = NoneV
    /\ run_record = NoneV

\* line 216: tree = ast.parse(condition, mode="eval")
Parse ==
    /\ eval_pc = "parse"
    /\ tree' = ast_parse(condition)
    /\ IF tree' = SyntaxErrorTree
       THEN eval_pc' = "raised" /\ result' = Invalid(condition, "SyntaxError")
       ELSE eval_pc' = "validate" /\ result' = result
    /\ UNCHANGED <<condition, eval_state, executed>>
    /\ UNCHANGED run_vars
    /\ UNCHANGED service_vars

\* line 217: _validate_ast(tree.body)
Validate ==
    /\ eval_pc = "validate"
    /\ IF validate_ast(tree)
       THEN eval_pc' = "eval" /\ result' = result
       ELSE eval_pc' = "raised" /\ result' = Invalid(condition, "TypeError")
    /\ UNCHANGED <<condition, eval_state, tree, executed>>
    /\ UNCHANGED run_vars
    /\ UNCHANGED service_vars

\* lines 218-226: bool(eval(...)), any exception re-raised as ValueError
Evaluate ==
    /\ eval_pc = "eval"
    /\ LET r == checked_bool(condition, py_eval(tree, Env(eval_state)))
       IN /\ result' = r.v
          /\ eval_state' = r.st
          /\ executed' = r.calls
          /\ eval_pc' = IF IsExc(r.v) THEN "raised" ELSE "returned"
    /\ UNCHANGED <<condition, tree>>
    /\ UNCHANGED run_vars
    /\ UNCHANGED service_vars

EvalNext == Parse \/ Validate \/ Evaluate

EvalSpec == EvalInit /\ [][EvalNext]_vars

(***************************************************************************)
(* Two calls of execute on one engine and one graph, as main.py starts them *)
(* with asyncio.to_thread(engine.execute, graph, initial_state): the calls  *)
(* share the engine's registry, the graph and the object store, and each    *)
(* has the local variables of execute.  The steps of the two calls          *)
(* interleave; the harshest case is taken, both calls being passed the same *)
(* initial_state object.                                                    *)
(***************************************************************************)
Calls == {1, 2}

\* a -> b -> c, and a self-loop that counts to 3
SharedRuns ==
    {Run(Graph({"a", "b", "c"}, [a |-> <<"b">>, b |-> <<"c">>], <<>>, "a"),
         [a |-> ka, b |-> kb, c |-> "noop"], h) :
        ka \in {"inc", "append", "replace"}, kb \in {"inc", "set_value", "raise"},
        h \in InitialHeaps}
    \cup
    {Run(Graph({"a"}, [a |-> <<"a">>],
               Conditions([x \in {<<"a", "a">>} |-> <<Text("state.get('i', 0) < 3")>>]),
               "a"),
         [a |-> "inc"], Empty)}

\* the local variables of a call: a run's program point and variables but the heap
Local(r) ==
    [pc |-> r.pc, error |-> r.error, state |-> r.state, log |-> r.log,
     current_node |-> r.current_node, step |-> r.step, invocations |-> r.invocations]

\* works on the initial_state object itself
call_begin_shared(copy) ==
    RunAt("while", NoError, copy.heap, initial_state, <<>>, Some(graph.start_node), 0, 0)

\* a log that outlives the call: a call starts from what call 1 has logged
call_begin_kept_log(copy) ==
    RunAt("while", NoError, copy.heap, copy.ref, calls[1].log, Some(graph.start_node), 0, 0)

\* lines 183-189 of a call
call_begin(copy) ==
    RunAt("while", NoError, copy.heap, copy.ref, <<>>, Some(graph.start_node), 0, 0)

\* line 191 of a call
call_loop_test(c) == c.current_node # NoName /\ c.step < MAX_STEPS

\* lines 250-253 of a call
call_end(h, c) ==
    IF c.step >= MAX_STEPS
    THEN RunAt("raised", Raised("RuntimeError", "StepLimitExceeded", ""), h, c.state,
               c.log, c.current_node, c.step, c.invocations)
    ELSE RunAt("returned", NoError, h, c.state, c.log, c.current_node, c.step,
               c.invocations)

\* the next step of a call with local variables c on the object store h
CallStep(h, c) ==
    IF c.pc = "start" THEN call_begin(DeepCopy(h, initial_state))
    ELSE IF c.pc = "while" /\ call_loop_test(c)
    THEN Body(graph, node_functions, h, c.state, c.current_node[1], c.step, c.log,
              c.invocations)
    ELSE call_end(h, c)

\* a call run to its end with no other call's steps between its own
RECURSIVE Alone(_)
Alone(r) == IF r.pc \in {"returned", "raised"} THEN r ELSE Alone(CallStep(r.heap, r))

\* what a call gives its caller: the exception, or the final state and the log,
\* objects by value
EntryValue(h, e) ==
    [step |-> e.step, node_name |-> e.node_name, decision |-> e.decision,
     entry_state |-> Deref(h, e.entry_state), exit_state |-> Deref(h, e.exit_state)]
Outcome(h, c) ==
    IF c.pc = "returned"
    THEN [error |-> NoError, state |-> Deref(h, c.state),
          log |-> [i \in 1..Len(c.log) |-> EntryValue(h, c.log[i])]]
    ELSE [error |-> c.error, state |-> EmptyCells, log |-> <<>>]
OutcomeOf(r) == Outcome(r.heap, r)

SharedInit ==
    /\ \E r \in SharedRuns :
          /\ graph = r.graph
          /\ node_functions = r.node_functions
          /\ heap = r.heap
          /\ initial_state = Len(r.heap)
    /\ state = 0
    /\ log = <<>>
    /\ current_node = NoName
    /\ step = 0
    /\ pc = "idle"
    /\ error = NoError
    /\ invocations = 0
    /\ condition = <<>>
    /\ eval_state = EmptyCells
    /\ tree = NoNode
    /\ eval_pc = "idle"
    /\ result = NoneV
    /\ executed = <<>>
    /\ calls = [p \in Calls |-> Local(RunAt("start", NoError, heap, 0, <<>>, NoName, 0, 0))]
    /\ alone = OutcomeOf(Alone(RunAt("start", NoError, heap, 0, <<>>, NoName, 0, 0)))
    /\ payload = NoneV
    /\ run_record = NoneV

\* call p takes its next step
Advance(p) ==
    /\ LET r == CallStep(heap, calls[p])
       IN /\ heap' = r.heap
          /\ calls' = [calls EXCEPT ![p] = Local(r)]
    /\ UNCHANGED <<graph, node_functions, initial_state, state, log, current_node, step,
                   pc, error, invocations, alone, payload, run_record>>
    /\ UNCHANGED eval_vars

CallBegin(p) == calls[p].pc = "start" /\ Advance(p)
CallIterate(p) == calls[p].pc = "while" /\ call_loop_test(calls[p]) /\ Advance(p)
CallFinish(p) ==
    /\ \/ calls[p].pc = "exit"
       \/ calls[p].pc = "while" /\ ~call_loop_test(calls[p])
    /\ Advance(p)

SharedNext == \E p \in Calls : CallBegin(p) \/ CallIterate(p) \/ CallFinish(p)

SharedSpec == SharedInit /\ [][SharedNext]_vars


(***************************************************************************)
(* main.py, POST /graph/create followed by a run of the stored graph.  A    *)
(* JSON object is the sequence of its <<key, value>> pairs in order, as the *)
(* dict json() makes of it; keys are strings.  A node's value is kept as    *)
(* its "func" entry, a str, or None when it has no usable one.              *)
(***************************************************************************)
Obj(items) == [t |-> "object", v |-> items]
Keys(items) == {items[i][1] : i \in 1..Len(items)}
Get(items, key) == items[CHOOSE i \in 1..Len(items) : items[i][1] = key][2]
\* d[key] = value: in place when the key is there, else at the end
Put(items, key, value) ==
    IF key \in Keys(items)
    THEN [i \in 1..Len(items) |-> IF items[i][1] = key THEN <<key, value>> ELSE items[i]]
    ELSE Append(items, <<key, value>>)

\* `payload.get(name) or {}`: the items of the dict, none for a falsy value,
\* and <<"not a dict">> for what the isinstance checks of lines 107-112 refuse
NotADict == <<"not a dict">>
items_or_empty(value) ==
    IF value.t = "object" THEN value.v
    ELSE IF ~Truthy(value, <<>>) THEN <<>>
    ELSE NotADict

\* lines 114-126: the start node, defaulted and created when missing;
\* [nodes, start], start a value.  A start_node that is not a str becomes a
\* key that is no name, which line 158 refuses: it is left out of the items.
with_start(nodes, start) ==
    IF ~Truthy(start, <<>>)
    THEN (IF nodes # <<>> THEN [nodes |-> nodes, start |-> StrV(nodes[1][1])]
          ELSE [nodes |-> <<<<"start", NoneV>>>>, start |-> StrV("start")])
    ELSE IF start.t # "str" \/ start.v \in Keys(nodes) THEN [nodes |-> nodes, start |-> start]
    ELSE [nodes |-> Append(nodes, <<start.v, NoneV>>), start |-> start]

\* lines 129-134: every node gets a func, its own name by default
with_funcs(nodes) ==
    [i \in 1..Len(nodes) |->
        IF nodes[i][2].t = "str" /\ nodes[i][2].v # "" THEN nodes[i]
        ELSE <<nodes[i][1], StrV(nodes[i][1])>>]

\* checks the targets of an edge and creates none of them
add_targets_none(nodes, targets, i) ==
    IF \E j \in i..Len(targets) : targets[j].t # "str" THEN <<"not a str">> ELSE nodes

\* lines 148-153 from target i on: the nodes with the missing targets created,
\* <<"not a str">> in front when a target is not a string
RECURSIVE add_targets(_, _, _)
add_targets(nodes, targets, i) ==
    IF i > Len(targets) THEN nodes
    ELSE IF targets[i].t # "str" THEN <<"not a str">>
    ELSE add_targets(IF targets[i].v \in Keys(nodes) THEN nodes
                     ELSE Append(nodes, <<targets[i].v, StrV(targets[i].v)>>),
                     targets, i + 1)

\* lines 137-153 from edge i on: [ok, nodes, edges]
RECURSIVE normalize_edges(_, _, _)
edges_checked(nodes, edges, i, withTargets) ==
    IF withTargets = <<"not a str">>
    THEN [ok |-> FALSE, nodes |-> nodes, edges |-> edges]
    ELSE normalize_edges(withTargets, edges, i + 1)
edges_listed(nodes, edges, i) ==
    IF edges[i][2].t # "list"
    THEN [ok |-> FALSE, nodes |-> nodes, edges |-> edges]
    ELSE edges_checked(nodes, edges, i, add_targets(nodes, edges[i][2].v, 1))
normalize_edges(nodes, edges, i) ==
    IF i > Len(edges) THEN [ok |-> TRUE, nodes |-> nodes, edges |-> edges]
    ELSE edges_listed(IF edges[i][1] \in Keys(nodes) THEN nodes
                      ELSE Append(nodes, <<edges[i][1], StrV(edges[i][1])>>),
                      IF edges[i][2] = NoneV
                      THEN Put(edges, edges[i][1], ListV(<<>>)) ELSE edges,
                      i)

\* lines 156-166: GraphDefinitionModel(...) accepts str keys, str funcs, lists
\* of str, str conditions and a str start_node
schema_valid(nodes, edges, conditions, start) ==
    /\ start.t = "str"
    /\ \A i \in 1..Len(conditions) : conditions[i][2].t = "str"

\* the GraphDefinition that is stored, lines 157-170
stored_graph(nodes, edges, conditions, start) ==
    Graph(Keys(nodes),
          [src \in Keys(edges) |->
              [j \in 1..Len(Get(edges, src).v) |-> Get(edges, src).v[j].v]],
          [key \in Keys(conditions) |-> Get(conditions, key).v],
          start.v)

Rejected == [status |-> 400]
graph_validated(n, conditions, start) ==
    IF ~n.ok \/ ~schema_valid(n.nodes, n.edges, conditions, start) THEN Rejected
    ELSE [status |-> 200, graph |-> stored_graph(n.nodes, n.edges, conditions, start)]
graph_started(s, edges, conditions) ==
    graph_validated(normalize_edges(with_funcs(s.nodes), edges, 1), conditions, s.start)

\* main.py create_graph, lines 100-175, storage succeeding: status 400 or the
\* stored graph
create_graph(body) ==
    IF NotADict \in {items_or_empty(body.nodes), items_or_empty(body.edges),
                     items_or_empty(body.conditions)}
    THEN Rejected
    ELSE graph_started(with_start(items_or_empty(body.nodes), body.start_node),
                       items_or_empty(body.edges), items_or_empty(body.conditions))

\* main.py lines 55-61: NODE_FUNCTIONS
NODE_FUNCTIONS == [n \in ReviewNodes |-> n]

\* request bodies: nodes, edges, conditions and start_node present or not, well
\* shaped or not, over names that NODE_FUNCTIONS has and one it has not
Payloads ==
    [nodes : {NoneV, Obj(<<>>), ListV(<<StrV("end_node")>>),
              Obj(<<<<"extract_functions", StrV("extract_functions")>>>>),
              Obj(<<<<"end_node", NoneV>>, <<"extract_functions", StrV("f")>>>>)},
     edges : {NoneV, StrV("end_node"),
              Obj(<<<<"extract_functions", ListV(<<StrV("end_node")>>)>>>>),
              Obj(<<<<"check_complexity", ListV(<<StrV("extract_functions"), StrV("z")>>)>>>>),
              Obj(<<<<"extract_functions", NoneV>>>>),
              Obj(<<<<"extract_functions", StrV("end_node")>>>>),
              Obj(<<<<"extract_functions", ListV(<<IntV(5)>>)>>>>),
              Obj(<<<<"end_node", ListV(<<StrV("end_node"), StrV("detect_issues")>>)>>,
                    <<"detect_issues", ListV(<<>>)>>>>)},
     conditions : {NoneV, StrV("x"),
                   Obj(<<<<"end_node->end_node", [t |-> "str", v |-> Word("false")]>>>>),
                   Obj(<<<<"extract_functions->end_node", IntV(1)>>>>)},
     start_node : {NoneV, StrV(""), StrV("extract_functions"), StrV("check_complexity"),
                   StrV("z"), IntV(5)}]

ApiInit ==
    /\ payload \in Payloads
    /\ graph = Graph({}, <<>>, <<>>, "")
    /\ node_functions = NODE_FUNCTIONS
    /\ heap = Empty
    /\ initial_state = 1
    /\ state = 0
    /\ log = <<>>
    /\ current_node = NoName
    /\ step = 0
    /\ pc = "create"
    /\ error = NoError
    /\ invocations = 0
    /\ condition = <<>>
    /\ eval_state = EmptyCells
    /\ tree = NoNode
    /\ eval_pc = "idle"
    /\ result = NoneV
    /\ executed = <<>>
    /\ calls = <<>>
    /\ alone = NoneV
    /\ run_record = NoneV

\* POST /graph/create: the graph is stored, or the request is refused
CreateGraph ==
    /\ pc = "create"
    /\ IF create_graph(payload).status = 200
       THEN graph' = create_graph(payload).graph /\ pc' = "start"
       ELSE graph' = graph /\ pc' = "rejected"
    /\ UNCHANGED <<node_functions, initial_state, heap, state, log, current_node, step,
                   error, invocations>>
    /\ UNCHANGED eval_vars
    /\ UNCHANGED service_vars

\* POST /graph/run on the stored graph: engine.execute(graph, initial_state)
ApiNext == CreateGraph \/ Begin \/ Iterate \/ Finish

ApiSpec == ApiInit /\ [][ApiNext]_vars

(***************************************************************************)
(* main.py, POST /graph/run-async on a stored graph, and storage_sqlite.py. *)
(* A row of the runs table is kept as its status, its final_state and its   *)
(* log.  pc goes from "request" through the positions of execute to "done", *)
(* the end of the background task.                                          *)
(***************************************************************************)
\* the graph_id of the request, and the run_id that uuid4 gives the run
RequestGraphId == "g-1"
NewRunId == "r-1"

\* storage_sqlite.py reserve_run, lines 138-166
reserve_run(run_id, graph_id) ==
    [run_id |-> run_id, graph_id |-> graph_id, status |-> "running",
     final_state |-> NoneV, log |-> <<>>]

\* storage_sqlite.py store_run, lines 168-261, on the RunState that
\* _execute_and_store builds: RunState.to_pydantic (models.py line 169) calls
\* to_pydantic on every entry of the log, which the LogEntry of engine.py
\* (lines 152-160) does not have.  The graph from storage has no graph_id:
\* getattr(graph, "graph_id", None) is None (main.py line 230), and
\* `self.graph_id or ""` (models.py line 166) stores "" for it.
store_run(row, run_id, final_state, entries) ==
    IF entries # <<>>
    THEN [raised |-> TRUE, row |-> row]
    ELSE [raised |-> FALSE,
          row |-> [run_id |-> run_id, graph_id |-> "", status |-> "completed",
                   final_state |-> RefV(final_state), log |-> entries]]

\* storage_sqlite.py mark_run_failed, lines 294-319: setdefault leaves a
\* final_state of None as it is, and the assignment into it raises before the
\* UPDATE
mark_run_failed(row) ==
    IF row = NoneV THEN [raised |-> FALSE, row |-> row]
    ELSE IF row.final_state = NoneV THEN [raised |-> TRUE, row |-> row]
    ELSE [raised |-> FALSE, row |-> [row EXCEPT !.status = "failed"]]

\* the graphs that create_graph stores for the request bodies
StoredGraphs == {create_graph(body).graph : body \in {b \in Payloads : create_graph(b).status = 200}}

AsyncInit ==
    /\ graph \in StoredGraphs
    /\ node_functions = NODE_FUNCTIONS
    /\ heap = Empty
    /\ initial_state = 1
    /\ state = 0
    /\ log = <<>>
    /\ current_node = NoName
    /\ step = 0
    /\ pc = "request"
    /\ error = NoError
    /\ invocations = 0
    /\ condition = <<>>
    /\ eval_state = EmptyCells
    /\ tree = NoNode
    /\ eval_pc = "idle"
    /\ result = NoneV
    /\ executed = <<>>
    /\ calls = <<>>
    /\ alone = NoneV
    /\ payload = NoneV
    /\ run_record = NoneV

\* run_graph_async, lines 250-263: the graph is found and the run reserved
ReserveRun ==
    /\ pc = "request"
    /\ run_record' = reserve_run(NewRunId, RequestGraphId)
    /\ pc' = "reserved"
    /\ UNCHANGED <<graph, node_functions, initial_state, heap, state, log, current_node,
                   step, error, invocations, calls, alone, payload>>
    /\ UNCHANGED eval_vars

\* run_graph_async, lines 265-269: the task is scheduled and the run_id returned;
\* the task then starts with engine.execute, line 226
Respond ==
    /\ pc = "reserved"
    /\ pc' = "start"
    /\ UNCHANGED <<graph, node_functions, initial_state, heap, state, log, current_node,
                   step, error, invocations>>
    /\ UNCHANGED eval_vars
    /\ UNCHANGED service_vars

\* _execute_and_store, lines 228-240, after execute has returned
StoreRun ==
    /\ pc = "returned"
    /\ run_record' = store_run(run_record, run_record.run_id, state, log).row
    /\ IF store_run(run_record, run_record.run_id, state, log).raised
       THEN pc' = "except" /\ error' = Raised("AttributeError", "StoreRunFailure", "")
       ELSE pc' = "done" /\ error' = error
    /\ UNCHANGED <<graph, node_functions, initial_state, heap, state, log, current_node,
                   step, invocations, calls, alone, payload>>
    /\ UNCHANGED eval_vars

\* _execute_and_store, lines 242-247: the handler of whatever execute or
\* store_run raised; what mark_run_failed raises is logged and dropped
MarkRunFailed ==
    /\ pc \in {"raised", "except"}
    /\ run_record' = mark_run_failed(run_record).row
    /\ pc' = "done"
    /\ UNCHANGED <<graph, node_functions, initial_state, heap, state, log, current_node,
                   step, error, invocations, calls, alone, payload>>
    /\ UNCHANGED eval_vars

AsyncNext == ReserveRun \/ Respond \/ Begin \/ Iterate \/ Finish \/ StoreRun \/ MarkRunFailed

AsyncSpec == AsyncInit /\ [][AsyncNext]_vars

(***************************************************************************)
(* Properties of execute.                                                   *)
(***************************************************************************)
Done == pc \in {"returned", "raised"}
Last(s) == s[Len(s)]
\* the run ended in execute's own after-loop code, not in a failing visit
NoVisitFailed == error.kind \notin {"UnknownNode", "MissingNodeFunction",
                                     "NodeExecutionFailure", "GuardFailure"}
AllDecisionsNonEmpty == \A i \in 1..Len(log) : log[i].decision # <<>>

\* C1: whenever a logged visit has a non-empty decision, the node visited next is
\* the first element of that decision, whatever else the decision lists, and one
\* visit logs one entry: consecutive entries chain through decision[0], and while
\* the loop runs the node to visit next is decision[0] of the last entry.
C1_FirstSatisfiedIsFollowed ==
    /\ \A i \in 1..(Len(log) - 1) :
          log[i].decision # <<>> => log[i + 1].node_name = log[i].decision[1]
    /\ (pc = "while" /\ log # <<>> /\ Last(log).decision # <<>>) =>
          current_node = Some(Last(log).decision[1])
    /\ Len(log) <= step

\* a visit found two different successors satisfied, the first one was visited
\* next and the second one never was
C1_Witness ==
    /\ Done
    /\ \E i \in 1..(Len(log) - 1) :
          /\ Len(log[i].decision) = 2
          /\ log[i].decision[1] # log[i].decision[2]
          /\ log[i + 1].node_name = log[i].decision[1]
          /\ \A j \in 1..Len(log) : log[j].node_name # log[i].decision[2]

\* C2: a run in which every visit finds a satisfied outgoing edge calls exactly
\* MAX_STEPS node functions and then fails with the step-limit error: it does
\* not return, and it does not stop while below the bound.
C2_EndlessCycleHitsTheBound ==
    (AllDecisionsNonEmpty /\ NoVisitFailed) =>
        /\ pc = "while" /\ step < MAX_STEPS => LoopTest
        /\ pc # "returned"
        /\ pc = "raised" =>
              /\ error = Raised("RuntimeError", "StepLimitExceeded", "")
              /\ invocations = MAX_STEPS
              /\ Len(log) = MAX_STEPS

C2_Witness ==
    /\ pc = "raised"
    /\ AllDecisionsNonEmpty
    /\ error.kind = "StepLimitExceeded"
    /\ invocations = MAX_STEPS

\* C4 (as claimed): a run whose k-th visit, k <= MAX_STEPS, finds no outgoing
\* edge or no satisfied guard returns normally with a log of k entries; the
\* step-limit error is raised only when a node is still to be visited.
C4_TerminalVisitReturns ==
    (Done /\ NoVisitFailed /\ log # <<>> /\ Last(log).decision = <<>>) =>
        /\ pc = "returned"
        /\ error = NoError
        /\ Len(log) = step

\* C5: the decision logged for a visit is the node's declared successor list,
\* in order and with duplicates, restricted to the successors whose edge has no
\* guard or whose guard is true of the state the node function returned.
Satisfied(node, pystate, nxt) ==
    \/ condition_key(node, nxt) \notin DOMAIN graph.conditions
    \/ EngineEvaluate(graph.conditions[condition_key(node, nxt)], pystate) = BoolV(TRUE)
Successors(node) == IF node \in DOMAIN graph.edges THEN graph.edges[node] ELSE <<>>
ExpectedDecision(e) ==
    SelectSeq(Successors(e.node_name),
              LAMBDA nxt : Satisfied(e.node_name, Deref(heap, e.exit_state), nxt))
C5_DecisionIsFilteredSuccessors ==
    log # <<>> => Last(log).decision = ExpectedDecision(Last(log))

\* a visit whose node function changed what a guard reads: the guard is false of
\* the entry state (or fails on it) and true of the returned state
C5_Witness ==
    /\ log # <<>>
    /\ Last(log).decision # <<>>
    /\ Len(Last(log).decision) < Len(Successors(Last(log).node_name))
    /\ \E nxt \in {"b", "c"} :
          /\ Last(log).decision = <<nxt>>
          /\ condition_key(Last(log).node_name, nxt) \in DOMAIN graph.conditions
          /\ ~Satisfied(Last(log).node_name, Deref(heap, Last(log).entry_state), nxt)

\* how far a run is from its end: each step of execute brings it closer
Measure ==
    3 * (MAX_STEPS - step)
    + (CASE pc = "start" -> 3 [] pc = "while" -> 2 [] pc = "exit" -> 1 [] OTHER -> 0)

\* C3: whatever the graph and the initial state, a run whose node functions
\* return ends, by returning or by raising, and calls at most MAX_STEPS node
\* functions on the way: every step of execute lowers Measure, which never
\* falls below zero, and leaves the run ended or at a point with a next step.
C3_ExecuteTerminates ==
    [][/\ Measure' < Measure
       /\ Measure' >= 0
       /\ invocations' <= MAX_STEPS
       /\ Done' \/ pc' \in {"while", "exit"}]_vars

\* a run that ended at the bound itself
C3_Witness == Done /\ invocations = MAX_STEPS

\* the objects a log entry's snapshots consist of
SnapshotIds(e) == Reach(heap, e.entry_state) \cup Reach(heap, e.exit_state)

\* C6: an appended LogEntry keeps its place and its content for the rest of the
\* run: no step changes an object one of its snapshots consists of, and no
\* snapshot shares an object with the live state, with the initial state or
\* with another snapshot.
NoAliasing ==
    log # <<>> =>
        /\ Reach(heap, Last(log).entry_state) \cap Reach(heap, Last(log).exit_state) = {}
        /\ SnapshotIds(Last(log)) \cap Reach(heap, state) = {}
        /\ SnapshotIds(Last(log)) \cap Reach(heap, initial_state) = {}
        /\ \A i \in 1..(Len(log) - 1) : SnapshotIds(Last(log)) \cap SnapshotIds(log[i]) = {}
C6_SnapshotsAreFrozen ==
    [][/\ \A i \in 1..Len(log) :
             /\ i <= Len(log') /\ log'[i] = log[i]
             /\ \A id \in SnapshotIds(log[i]) : heap'[id] = heap[id]
       /\ NoAliasing']_vars

\* a later node function changed a nested list in place after an earlier visit
\* had recorded it
C6_Witness ==
    \E i \in 1..(Len(log) - 1) :
        /\ "visited" \in DOMAIN Deref(heap, log[i].exit_state)
        /\ "visited" \in DOMAIN Deref(heap, state)
        /\ Deref(heap, log[i].exit_state)["visited"] # Deref(heap, state)["visited"]
        /\ Deref(heap, Last(log).entry_state)["visited"]
              = Deref(heap, log[i].exit_state)["visited"]

\* C10 (as claimed): a run that a guard evaluation ended raised the
\* invalid-condition error, a ValueError whose message names the edge
\* "<src>-><dst>" of the failing guard.
C10_GuardFailureNamesEdge ==
    (pc = "raised" /\ error.kind = "GuardFailure") =>
        /\ error.type = "ValueError"
        /\ error.subject \in DOMAIN graph.conditions

(***************************************************************************)
(* Properties of condition_evaluator.py's evaluate.                         *)
(***************************************************************************)
Seq2Set(s) == {s[i] : i \in 1..Len(s)}

\* the nodes directly below a node
Children(n) ==
    CASE n.k = "BoolOp" -> Seq2Set(n.values)
      [] n.k = "BinOp" -> {n.left, n.right}
      [] n.k = "UnaryOp" -> {n.operand}
      [] n.k = "Compare" -> {n.left} \cup Seq2Set(n.comparators)
      [] n.k = "Subscript" -> {n.value, n.slice}
      [] n.k = "Slice" -> {n.lower, n.upper} \ {NoNode}
      [] n.k = "Call" ->
           {n.func} \cup Seq2Set(n.args)
               \cup {n.keywords[i].value : i \in 1..Len(n.keywords)}
      [] n.k = "Attribute" -> {n.value}
      [] n.k = "Tuple" -> Seq2Set(n.elts)
      [] OTHER -> {}

\* every node of a tree
RECURSIVE Nodes(_)
Nodes(n) == {n} \cup UNION {Nodes(c) : c \in Children(n)}

IsStateGet(n) == n.k = "Call" /\ n.func = Attribute(StateName, "get")

\* state.get(<literal>[, <literal>])
IsAllowedCall(n) ==
    /\ IsStateGet(n)
    /\ n.keywords = <<>>
    /\ Len(n.args) \in {1, 2}
    /\ \A i \in 1..Len(n.args) : is_constant_node(n.args[i])

DisallowedCalls(n) == {c \in Nodes(n) : c.k = "Call" /\ ~IsAllowedCall(c)}

\* C7 (as claimed): an expression that holds, anywhere in its tree, a call other
\* than state.get(<literal>[, <literal>]) does not return a value, and none of
\* its disallowed calls is made.
C7_DisallowedCallNeverRuns ==
    DisallowedCalls(tree) # {} =>
        /\ eval_pc # "returned"
        /\ DisallowedCalls(tree) \cap Seq2Set(executed) = {}

\* no name but `state`, and no attribute access but the callee of state.get(...)
RECURSIVE OnlyStateAndGet(_)
OnlyStateAndGet(n) ==
    CASE n.k = "Name" -> n.id = "state"
      [] n.k = "Attribute" -> FALSE
      [] IsStateGet(n) -> \A c \in Children(n) \ {n.func} : OnlyStateAndGet(c)
      [] OTHER -> \A c \in Children(n) : OnlyStateAndGet(c)

\* C8 (as claimed): an expression in which a name other than `state` or an
\* attribute access other than the callee of state.get(...) occurs, at any
\* depth, is rejected by validation: it never reaches evaluation.
C8_ForeignNameNeverEvaluated ==
    ~OnlyStateAndGet(tree) => eval_pc \notin {"eval", "returned"}

\* the subscript keys on state and the state.get arguments of a tree
KeysAndArguments(n) ==
    {s.slice : s \in {x \in Nodes(n) : x.k = "Subscript" /\ x.value = StateName}}
    \cup UNION {Seq2Set(c.args) : c \in {x \in Nodes(n) : IsStateGet(x)}}

\* C9 (as claimed): an expression with a subscript on state whose key is not a
\* (signed) constant node, or a state.get call with an argument that is not one,
\* fails: it is not accepted for evaluation and returns no value.
C9_OnlyConstantKeysAccepted ==
    (\E key \in KeysAndArguments(tree) : ~is_constant_node(key)) =>
        eval_pc \notin {"eval", "returned"}

\* C11: a call of evaluate that has ended either returned a bool or raised a
\* ValueError that carries the expression text and the cause, whatever the
\* origin of the failure (syntax, validation, or an error raised by eval); no
\* other exception class leaves it, and until it ends it has no outcome.
C11_BoolOrInvalidCondition ==
    /\ eval_pc = "returned" => result \in {BoolV(TRUE), BoolV(FALSE)}
    /\ eval_pc = "raised" =>
          /\ result.t = "exc"
          /\ result.v = "ValueError"
          /\ result.text = condition
          /\ result.cause \in {"SyntaxError", "TypeError", "KeyError", "NameError",
                               "IndexError", "ZeroDivisionError", "AttributeError"}
    /\ eval_pc \in {"parse", "validate", "eval"} => result = NoneV

\* a division by zero inside an accepted expression ended as the ValueError
C11_Witness ==
    /\ eval_pc = "raised"
    /\ result.v = "ValueError"
    /\ result.cause = "ZeroDivisionError"

\* C13 (as claimed): for an expression that is the word true in any letter case
\* evaluate returns True, for the word false in any letter case it returns
\* False, and in neither case does it raise.
C13_WordsTrueAndFalse ==
    /\ Lower(condition) = Word("true") =>
          /\ eval_pc # "raised"
          /\ eval_pc = "returned" => result = BoolV(TRUE)
    /\ Lower(condition) = Word("false") =>
          /\ eval_pc # "raised"
          /\ eval_pc = "returned" => result = BoolV(FALSE)

\* the expression is state['k'] op c
IsSubscriptCompare(n) ==
    /\ n.k = "Compare" /\ Len(n.ops) = 1
    /\ n.left.k = "Subscript" /\ n.left.value = StateName
    /\ n.left.slice.k = "Constant" /\ n.left.slice.value.t = "str"
    /\ n.comparators[1].k = "Constant"

\* the expression is state.get('k', d) op c
IsGetCompare(n) ==
    /\ n.k = "Compare" /\ Len(n.ops) = 1
    /\ IsStateGet(n.left) /\ Len(n.left.args) = 2
    /\ n.left.args[1].k = "Constant" /\ n.left.args[1].value.t = "str"
    /\ n.left.args[2].k = "Constant"
    /\ n.comparators[1].k = "Constant"

\* a call that has ended gave `expected`: the bool, or the failure if it is one
EndedWith(expected) ==
    /\ eval_pc = "returned" => result = expected
    /\ eval_pc = "raised" => IsExc(expected)

\* C17: with k present in state, evaluate("state['k'] op c") is (state[k] op c);
\* evaluate("state.get('k', d) op c") is (state[k] op c) with k present and
\* (d op c) with k absent.
C17_LookupThenCompare ==
    /\ (IsSubscriptCompare(tree) /\ tree.left.slice.value.v \in DOMAIN eval_state) =>
          EndedWith(PyCompare(tree.ops[1], eval_state[tree.left.slice.value.v],
                              tree.comparators[1].value))
    /\ IsGetCompare(tree) =>
          EndedWith(PyCompare(tree.ops[1],
                              IF tree.left.args[1].value.v \in DOMAIN eval_state
                              THEN eval_state[tree.left.args[1].value.v]
                              ELSE tree.left.args[2].value,
                              tree.comparators[1].value))

\* state.get('k', d) op c returned True by its default, and state['k'] op c
\* returned for a key that is present: seen in the calls that ended so
C17_Witness ==
    /\ eval_pc = "returned"
    /\ \/ /\ IsGetCompare(tree)
          /\ tree.left.args[1].value.v \notin DOMAIN eval_state
          /\ result = BoolV(TRUE)
       \/ /\ IsSubscriptCompare(tree)
          /\ tree.left.slice.value.v \in DOMAIN eval_state
          /\ result = BoolV(FALSE)

(***************************************************************************)
(* Properties of the guard evaluation inside execute.                       *)
(***************************************************************************)
\* the tree of the guard under a key of graph.conditions
GuardTree(key) == walked_tree(Strip(graph.conditions[key]))

\* the guarded edges out of a node, as keys of graph.conditions
GuardedEdges(node) ==
    {condition_key(node, nxt) : nxt \in Seq2Set(Successors(node))}
        \cap DOMAIN graph.conditions

\* a name that is neither `state` nor a constant
HasForeignName(n) ==
    \E x \in Nodes(n) : x.k = "Name" /\ x.id \notin {"state", "True", "False"}

\* the run stopped in the guard of the edge `key`, reported with that key
FailedInGuard(key) ==
    /\ pc = "raised"
    /\ error.kind = "GuardFailure"
    /\ error.subject = key

\* C12 (as claimed): a guard that holds a disallowed construct, here a foreign
\* name, fails, and fails before any part of it was evaluated: no visit is logged
\* whose guards include one, and when the run stops in one the state was not read.
C12_RejectedBeforeAnyLookup ==
    /\ \A i \in 1..Len(log) : \A key \in GuardedEdges(log[i].node_name) :
           ~HasForeignName(GuardTree(key))
    /\ \A key \in DOMAIN graph.conditions :
           (FailedInGuard(key) /\ HasForeignName(GuardTree(key))) =>
               ~StateRead(GuardTree(key), Deref(heap, state))

\* `A and B` with A falsy, `A or B` with A truthy: the first operand decides
DecidedByFirst(n, pystate) ==
    /\ n.k = "BoolOp"
    /\ Len(n.values) >= 2
    /\ ~IsExc(eval_node(n.values[1], pystate))
    /\ Truthy(eval_node(n.values[1], pystate), pystate) <=> (n.op = "Or")

\* C14 (as claimed): a guard `A and B` whose A is falsy, or `A or B` whose A is
\* truthy, does not evaluate B, so it does not fail: a run that stopped in the
\* guards of a node has no such guard failing on the state they were given.
C14_BoolOpShortCircuits ==
    (pc = "raised" /\ error.kind = "GuardFailure") =>
        \A key \in GuardedEdges(current_node[1]) :
            DecidedByFirst(GuardTree(key), Deref(heap, state)) =>
                ~IsExc(EngineEvaluate(graph.conditions[key], Deref(heap, state)))

\* operand i of the chain e0 op1 e1 op2 e2 ..., and its value
Operand(n, i) == IF i = 0 THEN n.left ELSE n.comparators[i]
OperandValue(n, i, pystate) == eval_node(Operand(n, i), pystate)

\* the pair (e_{i-1} op_i e_i) is true
PairTrue(n, i, pystate) ==
    /\ ~IsExc(OperandValue(n, i - 1, pystate))
    /\ ~IsExc(OperandValue(n, i, pystate))
    /\ PyCompare(n.ops[i], OperandValue(n, i - 1, pystate),
                 OperandValue(n, i, pystate)) = BoolV(TRUE)

\* the first pair that is not true, when there is one
FirstOtherPair(n, pystate) ==
    CHOOSE i \in 1..Len(n.ops) :
        /\ ~PairTrue(n, i, pystate)
        /\ \A j \in 1..(i - 1) : PairTrue(n, j, pystate)

\* the pair is false: both operands have a value and the comparison says no
PairFalse(n, i, pystate) ==
    /\ ~IsExc(OperandValue(n, i - 1, pystate))
    /\ ~IsExc(OperandValue(n, i, pystate))
    /\ PyCompare(n.ops[i], OperandValue(n, i - 1, pystate),
                 OperandValue(n, i, pystate)) = BoolV(FALSE)

\* the chain as a conjunction of its pairs, left to right: "true", "false" at
\* the first false pair whatever comes after it, "error" when the first pair
\* that is not true cannot be computed
ChainOutcome(n, pystate) ==
    IF \A i \in 1..Len(n.ops) : PairTrue(n, i, pystate) THEN "true"
    ELSE IF PairFalse(n, FirstOtherPair(n, pystate), pystate) THEN "false"
    ELSE "error"

\* the successors of a node over an edge whose guard is a comparison chain
ChainGuarded(node) ==
    {nxt \in Seq2Set(Successors(node)) :
        /\ condition_key(node, nxt) \in DOMAIN graph.conditions
        /\ GuardTree(condition_key(node, nxt)).k = "Compare"}

\* C15: a guard that is a chain of comparisons is true exactly when every
\* adjacent pair is true, and false at the first false pair without evaluating
\* any operand after it: a logged visit took each chain-guarded successor into
\* its decision exactly when all pairs of the guard were true of the returned
\* state, none of its chains was in error, and a run that stopped in the guards
\* of a node stopped in a guard that is no chain or is a chain in error.
C15_ChainIsConjunctionOfPairs ==
    /\ log # <<>> =>
          \A nxt \in ChainGuarded(Last(log).node_name) :
              /\ ChainOutcome(GuardTree(condition_key(Last(log).node_name, nxt)),
                              Deref(heap, Last(log).exit_state)) # "error"
              /\ nxt \in Seq2Set(Last(log).decision) <=>
                    ChainOutcome(GuardTree(condition_key(Last(log).node_name, nxt)),
                                 Deref(heap, Last(log).exit_state)) = "true"
    /\ (pc = "raised" /\ error.kind = "GuardFailure") =>
          \E nxt \in Seq2Set(Successors(current_node[1])) :
              /\ condition_key(current_node[1], nxt) \in DOMAIN graph.conditions
              /\ nxt \in ChainGuarded(current_node[1]) =>
                    ChainOutcome(GuardTree(condition_key(current_node[1], nxt)),
                                 Deref(heap, state)) = "error"

\* a logged visit whose chain guard was false at its first pair, with an operand
\* after it that raises when evaluated
C15_Witness ==
    /\ log # <<>>
    /\ \E nxt \in ChainGuarded(Last(log).node_name) :
          LET n == GuardTree(condition_key(Last(log).node_name, nxt))
              st == Deref(heap, Last(log).exit_state)
          IN /\ Len(n.ops) = 2
             /\ PairFalse(n, 1, st)
             /\ IsExc(OperandValue(n, 2, st))
             /\ Last(log).decision = <<>>

\* an arithmetic operator somewhere in the tree
HasArithmetic(n) ==
    \E m \in Nodes(n) :
        \/ m.k = "BinOp" /\ m.op \in ALLOWED_BINOPS
        \/ m.k = "UnaryOp" /\ m.op \in {"USub", "UAdd"}

\* C16 (as claimed): a guard that uses arithmetic is accepted by execute and
\* evaluated by Python's arithmetic: no run stops in the guards of a node whose
\* guards with arithmetic all have a truth value, by that arithmetic, in the
\* state the node left.
C16_ArithmeticGuardIsEvaluated ==
    (pc = "raised" /\ error.kind = "GuardFailure") =>
        \E key \in GuardedEdges(current_node[1]) :
            HasArithmetic(GuardTree(key)) =>
                IsExc(evaluate(Strip(graph.conditions[key]), Deref(heap, state)).v)

\* the guard compares state['k'], read first, and k is no key of the mapping
SubscriptsAbsentKey(n, pystate) ==
    /\ n.k = "Compare"
    /\ n.left.k = "Subscript" /\ n.left.value = StateName
    /\ n.left.slice.k = "Constant" /\ n.left.slice.value.t = "str"
    /\ n.left.slice.value.v \notin DOMAIN pystate

\* C18 (as claimed): in execute, a guard that subscripts state with a key the
\* state does not have is a failure of the run, never a guard that silently
\* takes a default: no visit is logged with such a guard on one of its edges.
C18_AbsentKeyFailsTheRun ==
    \A i \in 1..Len(log) : \A key \in GuardedEdges(log[i].node_name) :
        ~SubscriptsAbsentKey(GuardTree(key), Deref(heap, log[i].exit_state))

\* the node `hops` edges after a node in a graph whose nodes have at most one
\* successor, "" past the end of the chain
RECURSIVE Hop(_, _)
Hop(node, hops) ==
    IF hops = 0 \/ node = "" THEN node
    ELSE IF hops = 1 THEN (IF Successors(node) = <<>> THEN "" ELSE Successors(node)[1])
    ELSE Hop(Hop(node, hops \div 2), hops - (hops \div 2))

\* graph.conditions is empty, no node has two successors, the chain from
\* start_node ends in a node with no outgoing edge, and every node is a node of
\* the graph with a registered function that does not raise
IsPlainChain ==
    /\ DOMAIN graph.conditions = {}
    /\ \A node \in DOMAIN graph.edges :
          /\ Len(graph.edges[node]) <= 1
          /\ Seq2Set(graph.edges[node]) \subseteq graph.nodes
    /\ graph.start_node \in graph.nodes
    /\ \A node \in graph.nodes :
          node \in DOMAIN node_functions /\ node_functions[node] # "raise"
    /\ Hop(graph.start_node, Cardinality(graph.nodes)) = ""

\* C19 (as claimed): for a graph without conditions whose nodes have at most
\* one successor, execute visits the chain from start_node in edge order up to
\* the node with no outgoing edge, each node once, and returns a log that is
\* the chain: the run does not fail, the log starts at start_node, each entry
\* is followed by the entry of its node's successor, no node is logged twice,
\* and the returned log ends with the node that has no outgoing edge.
C19_ChainIsVisitedInOrder ==
    IsPlainChain =>
        /\ pc # "raised"
        /\ log # <<>> => log[1].node_name = graph.start_node
        /\ \A i \in 1..(Len(log) - 1) :
              Successors(log[i].node_name) = <<log[i + 1].node_name>>
        /\ Cardinality({log[i].node_name : i \in 1..Len(log)}) = Len(log)
        /\ pc = "returned" =>
              log # <<>> /\ Successors(Last(log).node_name) = <<>>

\* C20 (as claimed): a run ends normally exactly at the first visited node whose
\* decision is empty, and that node has run and has the last entry of the log:
\* a returned run has a log whose last entry, and no other, has an empty
\* decision, and a run whose log holds an entry with an empty decision has it
\* last and does not fail.
C20_EndsAtFirstEmptyDecision ==
    /\ pc = "returned" =>
          /\ log # <<>>
          /\ Last(log).decision = <<>>
    /\ \A i \in 1..Len(log) :
          log[i].decision = <<>> => i = Len(log) /\ pc # "raised"

\* the loop is about to visit current_node
AboutToVisit == pc = "while" /\ LoopTest

\* C21: when the node to visit, the start node or a chosen successor, is not
\* in graph.nodes, execute fails with the unknown-node error that names it; no
\* node function is called and the log gets no entry for it.
C21_UnknownNodeIsFatal ==
    [][(AboutToVisit /\ current_node[1] \notin graph.nodes) =>
          /\ pc' = "raised"
          /\ error' = Raised("ValueError", "UnknownNode", current_node[1])
          /\ invocations' = invocations
          /\ log' = log
          /\ \A i \in 1..Len(log') : log'[i].node_name # current_node[1]]_vars

\* a run that failed on a successor chosen by a logged visit, not a node
C21_Witness ==
    /\ pc = "raised" /\ error.kind = "UnknownNode"
    /\ log # <<>> /\ Last(log).decision[1] = error.subject
    /\ error.subject \notin graph.nodes

\* C22: when the node to visit is in graph.nodes and the registry has no
\* function under its name, execute fails with the missing-node-function error
\* that names it: the node is not skipped (no function is called, the log gets
\* no entry), and a run that failed takes no further step, so no other node is
\* run and nothing is returned.
C22_MissingFunctionIsFatal ==
    [][/\ pc # "raised"
       /\ (/\ AboutToVisit
           /\ current_node[1] \in graph.nodes
           /\ current_node[1] \notin DOMAIN node_functions) =>
             /\ pc' = "raised"
             /\ error' = Raised("ValueError", "MissingNodeFunction", current_node[1])
             /\ invocations' = invocations
             /\ log' = log]_vars

\* a run that failed on an unregistered node after it had visited another
C22_Witness ==
    /\ pc = "raised" /\ error.kind = "MissingNodeFunction"
    /\ log # <<>> /\ Last(log).decision[1] = error.subject
    /\ error.subject \in graph.nodes \ DOMAIN node_functions

\* C23: when a node function raises, execute fails with the node-execution error
\* that carries the node's name and the text of the original exception; the
\* function was called once, the log gets no entry for the step, and a run that
\* failed takes no further step: no retry, no later node, nothing returned.
C23_NodeFailureIsFatal ==
    [][/\ pc = "raised" => pc' = "raised"
       /\ (/\ AboutToVisit
           /\ current_node[1] \in graph.nodes
           /\ current_node[1] \in DOMAIN node_functions
           /\ node_functions[current_node[1]] = "raise") =>
             /\ pc' = "raised"
             /\ error' = [type |-> "RuntimeError", kind |-> "NodeExecutionFailure",
                          subject |-> current_node[1], text |-> "boom"]
             /\ invocations' = invocations + 1
             /\ log' = log]_vars

\* a run that failed in the function of its second node
C23_Witness ==
    /\ pc = "raised" /\ error.kind = "NodeExecutionFailure"
    /\ Len(log) = 1 /\ invocations = 2
    /\ node_functions[error.subject] = "raise"

\* C24: the log is append-only, one entry per completed visit: a step of execute
\* keeps every entry the log had, in place, and adds at most one; the i-th entry
\* has step i; and when execute returns, the log is as long as the number of
\* node functions called.
C24_LogIsAppendOnly ==
    [][/\ Len(log') \in {Len(log), Len(log) + 1}
       /\ \A i \in 1..Len(log) : log'[i] = log[i]
       /\ \A i \in 1..Len(log') : log'[i].step = i
       /\ Len(log') <= invocations'
       /\ pc' = "returned" => Len(log') = invocations']_vars

\* a run that returned after three visits
C24_Witness == pc = "returned" /\ Len(log) = 3 /\ invocations = 3 /\ log[3].step = 3

\* C25: execute never modifies the GraphDefinition it is given: nodes, edges,
\* conditions and start_node are after every step of execute what they were
\* before it, whether the run goes on, returns or fails.
C25_GraphIsReadOnly ==
    [][/\ graph'.nodes = graph.nodes
       /\ graph'.edges = graph.edges
       /\ graph'.conditions = graph.conditions
       /\ graph'.start_node = graph.start_node]_vars

\* a run over a graph with edges and a guard that has ended in a failure after a
\* logged visit
C25_Witness ==
    /\ pc = "raised" /\ log # <<>>
    /\ DOMAIN graph.conditions # {} /\ DOMAIN graph.edges # {}

\* C26: when two calls of execute on one engine and one graph run with their
\* steps interleaved, each call that has ended has returned the final state and
\* the log, or raised the exception, that it gives when it runs alone.
C26_ConcurrentCallsAreIndependent ==
    \A p \in DOMAIN calls :
        calls[p].pc \in {"returned", "raised"} => Outcome(heap, calls[p]) = alone

\* both calls have returned after visits that alternated: the first visit of
\* call 2 lies between the first and the second visit of call 1, and the node
\* functions changed the state
C26_Witness ==
    /\ calls # <<>>
    /\ calls[1].pc = "returned" /\ calls[2].pc = "returned"
    /\ Len(calls[1].log) >= 2 /\ Len(calls[2].log) >= 2
    /\ calls[1].log[1].entry_state < calls[2].log[1].entry_state
    /\ calls[2].log[1].entry_state < calls[1].log[2].entry_state
    /\ Deref(heap, calls[1].state) # Deref(heap, initial_state)

\* C27: the initial_state mapping passed to execute is not changed by execute,
\* whether it returns or raises, although node functions mutate in place the
\* state they are given: no step changes the mapping or an object nested in it.
C27_InitialStateIsUntouched ==
    [][\A id \in Reach(heap, initial_state) : heap'[id] = heap[id]]_vars

\* a run has ended, by return or by raise, after its node functions appended to
\* the list that the initial state also holds under "visited"
C27_Witness ==
    /\ Done /\ invocations >= 1
    /\ "visited" \in DOMAIN Deref(heap, initial_state)
    /\ "visited" \in DOMAIN Deref(heap, state)
    /\ Deref(heap, state)["visited"] # Deref(heap, initial_state)["visited"]

\* the visits of suggest_improvements so far
Suggested == {i \in 1..Len(log) : log[i].node_name = "suggest_improvements"}

\* quality_score >= 0.5 or iterations >= 5 in the run's state
ReviewSettled(pystate) ==
    \/ /\ "quality_score" \in DOMAIN pystate
       /\ PyCompare("GtE", pystate["quality_score"], FloatV(1, 2)) = BoolV(TRUE)
    \/ /\ "iterations" \in DOMAIN pystate
       /\ PyCompare("GtE", pystate["iterations"], IntV(5)) = BoolV(TRUE)

\* the run does not fail, has visited suggest_improvements at most 5 times, and
\* returns a state with quality_score >= 0.5 or iterations >= 5
ReviewEndsWell ==
    /\ pc # "raised"
    /\ Cardinality(Suggested) <= 5
    /\ pc = "returned" => ReviewSettled(Deref(heap, state))

\* C28 (as claimed): every run of the code-review workflow of the test ends
\* normally, with at most 5 visits of suggest_improvements, in a state with
\* quality_score >= 0.5 or iterations >= 5.
C28_ReviewAlwaysEndsWell == graph = ReviewGraph => ReviewEndsWell

\* C28 (amended): every run of the code-review workflow of the test whose
\* initial state has no "iterations", or a number that is not negative, ends
\* normally, with at most 5 visits of suggest_improvements, in a state with
\* quality_score >= 0.5 or iterations >= 5.
C28_ReviewEndsWellWithFreshCounter ==
    (/\ graph = ReviewGraph
     /\ "iterations" \in DOMAIN Deref(heap, initial_state) =>
           /\ IsNum(Deref(heap, initial_state)["iterations"])
           /\ Num(Deref(heap, initial_state)["iterations"]) >= 0)
        => ReviewEndsWell

\* a run of the workflow on a text with many issues, started without
\* "iterations": it has returned after the fifth visit of suggest_improvements,
\* the score still under 0.5
C28_Witness ==
    /\ graph = ReviewGraph /\ pc = "returned"
    /\ "iterations" \notin DOMAIN Deref(heap, initial_state)
    /\ Cardinality(Suggested) = 5
    /\ Last(log).node_name = "suggest_improvements"
    /\ Deref(heap, state)["iterations"] = IntV(5)
    /\ PyCompare("Lt", Deref(heap, state)["quality_score"], FloatV(1, 2)) = BoolV(TRUE)

\* the graph of the request has been stored
Stored == pc \notin {"create", "rejected", "idle"} /\ payload # NoneV

\* C29: every graph that create_graph stores has its start_node in nodes and
\* every edge source and edge target in nodes, and a run of it never fails
\* with the unknown-node error.
C29_StoredGraphIsClosed ==
    Stored =>
        /\ graph.start_node \in graph.nodes
        /\ \A src \in DOMAIN graph.edges :
              src \in graph.nodes /\ Seq2Set(graph.edges[src]) \subseteq graph.nodes
        /\ error.kind # "UnknownNode"

\* a run of a stored graph has visited its start node, of which the request
\* gave only the name, and goes on to a node the request named only as an
\* edge target
C29_Witness ==
    /\ Stored /\ Len(log) = 1
    /\ payload.nodes = NoneV /\ payload.start_node.t = "str"
    /\ log[1].decision # <<>>
    /\ log[1].decision[1] # log[1].node_name
    /\ log[1].decision[1] \in graph.nodes

\* C30: the record of a run started through run-async exists with status
\* "running" from before the run_id is returned until execution ends, and when
\* the background task is over its status is "completed" if execute and
\* store_run succeeded and "failed" if either raised.
C30_RunRecordFollowsTheRun ==
    /\ pc \notin {"idle", "request"} /\ graph \in StoredGraphs => run_record # NoneV
    /\ run_record # NoneV /\ pc \notin {"except", "done"} => run_record.status = "running"
    /\ run_record # NoneV /\ pc = "done" =>
          run_record.status = (IF error = NoError THEN "completed" ELSE "failed")

\* what the node function of the visit about to happen returns, as a mapping:
\* it is called on the live state after the entry snapshot is taken
Returned(out) == Deref(out.heap, out.ref)
TransformReturn ==
    Returned(CallNode(node_functions[current_node[1]],
                      DeepCopy(heap, state).heap, state))

\* the states of a returned log chain from the initial state to the final one
StatesChain ==
    /\ log # <<>> => Deref(heap, log[1].entry_state) = Deref(heap, initial_state)
    /\ \A i \in 1..(Len(log) - 1) :
          Deref(heap, log[i + 1].entry_state) = Deref(heap, log[i].exit_state)
    /\ log # <<>> => Deref(heap, state) = Deref(heap, Last(log).exit_state)

\* C31: in every log execute returns, entry_state of step 1 equals the initial
\* state, entry_state of step N+1 equals exit_state of step N, the exit_state of
\* a step equals what the step's node function returned, and the final state
\* returned equals the last exit_state.
C31_StatesChainThroughTheLog ==
    [][/\ Len(log') > Len(log) =>
             Deref(heap', Last(log').exit_state) = TransformReturn
       /\ pc' = "returned" => StatesChain']_vars

\* a run has returned after three visits, the second of which was given one
\* mapping and returned another, that changed the state
C31_Witness ==
    /\ pc = "returned" /\ Len(log) = 3
    /\ node_functions[log[2].node_name] = "replace"
    /\ Deref(heap, log[2].exit_state) # Deref(heap, log[2].entry_state)
    /\ Deref(heap, log[1].exit_state) # Deref(heap, initial_state)

\* C32: in every log execute returns, the first entry is the visit of
\* graph.start_node, every later entry is the visit of the first element of the
\* decision before it, every entry but the last has a non-empty decision, and
\* the last entry has an empty one.
C32_LogFollowsFirstDecisions ==
    pc = "returned" /\ log # <<>> =>
        /\ log[1].node_name = graph.start_node
        /\ \A i \in 1..(Len(log) - 1) :
              /\ log[i].decision # <<>>
              /\ log[i + 1].node_name = log[i].decision[1]
        /\ Last(log).decision = <<>>

\* a run has returned whose first visit decided for two successors and whose
\* second visit was the first of them
C32_Witness ==
    /\ pc = "returned" /\ Len(log) = 2
    /\ Len(log[1].decision) = 2
    /\ log[1].decision[1] # log[1].decision[2]
    /\ log[2].node_name = log[1].decision[1]

\* the guard of the i-th declared successor of a node raises on a state
GuardRaises(node, i, pystate) ==
    IsExc(GuardOutcome(graph, node, Successors(node)[i], pystate))
\* the first declared successor of a node whose guard raises on a state
FirstRaising(node, pystate) ==
    CHOOSE j \in 1..Len(Successors(node)) :
        /\ GuardRaises(node, j, pystate)
        /\ \A i \in 1..(j - 1) : ~GuardRaises(node, i, pystate)

\* the visit of `node`, whose function has returned, ends as its guards on the
\* returned state say: with the error of the first that raises and nothing
\* logged or chosen, else with every satisfied successor in the decision
GuardsSettle(node, pystate) ==
    IF \E j \in 1..Len(Successors(node)) : GuardRaises(node, j, pystate)
    THEN /\ pc' = "raised"
         /\ error' = GuardError(GuardOutcome(graph, node,
                                             Successors(node)[FirstRaising(node, pystate)],
                                             pystate),
                                condition_key(node,
                                              Successors(node)[FirstRaising(node, pystate)]))
         /\ log' = log
         /\ current_node' = current_node
    ELSE /\ pc' \in {"while", "exit"}
         /\ Len(log') = Len(log) + 1
         /\ Last(log').decision =
               SelectSeq(Successors(node), LAMBDA nxt : Satisfied(node, pystate, nxt))

\* C33: the guards of all declared successors of a visited node are evaluated,
\* in declared order, before the next node is chosen: a guard that raises on a
\* later successor ends the run even when the guard of an earlier one held, and
\* that earlier successor is not visited.
C33_AllGuardsBeforeTheChoice ==
    [][(pc = "while" /\ invocations' = invocations + 1
            /\ error'.kind # "NodeExecutionFailure") =>
          GuardsSettle(current_node[1], Deref(heap', state'))]_vars

\* a run ended in the guard of the second successor of its start node, the
\* guard of the first one holding of the state the node function returned
C33_Witness ==
    /\ pc = "raised" /\ error.kind = "GuardFailure" /\ log = <<>>
    /\ Len(Successors(graph.start_node)) = 2
    /\ condition_key(graph.start_node, Successors(graph.start_node)[1])
           \in DOMAIN graph.conditions
    /\ Satisfied(graph.start_node, Deref(heap, state), Successors(graph.start_node)[1])
    /\ GuardRaises(graph.start_node, 2, Deref(heap, state))

\* the edges of the graph, as pairs of node names
Edges ==
    UNION {{<<src, dst>> : dst \in Seq2Set(graph.edges[src])} : src \in DOMAIN graph.edges}

\* C34 (as claimed): the guard consulted for an edge is the one stored for
\* exactly that pair of nodes: the entry of graph.conditions that a logged visit
\* consulted for one of its edges is the entry of no other edge of the graph.
C34_GuardBelongsToOneEdge ==
    \A i \in 1..Len(log) : \A dst \in Seq2Set(Successors(log[i].node_name)) :
        condition_key(log[i].node_name, dst) \in DOMAIN graph.conditions =>
            \A e \in Edges \ {<<log[i].node_name, dst>>} :
                condition_key(e[1], e[2]) # condition_key(log[i].node_name, dst)

\* two outcomes of an evaluation agree: the same bool, or an exception each
Agree(a, b) == IF IsExc(a) \/ IsExc(b) THEN IsExc(a) /\ IsExc(b) ELSE a = b

\* C35 (as claimed): the evaluator of condition_evaluator.py and the one of
\* engine.py agree on every expression and state: when the first ends, with a
\* bool or an exception, the second gives the same bool, or fails too, on the
\* mapping the first was given.
C35_EvaluatorsAgree ==
    [][eval_pc' \in {"returned", "raised"} =>
          Agree(result', EngineEvaluate(condition, eval_state))]_vars

\* the visits a call has logged, objects by value
Visits(h, c) == [i \in 1..Len(c.log) |-> EntryValue(h, c.log[i])]

\* C36: execute is deterministic in its inputs: two executions of one graph on
\* one initial state, with deterministic node functions, that have both ended
\* have visited the same nodes, logged equal node_name, entry_state, exit_state
\* and decision in every entry, and ended alike: with equal final states, or
\* with the same error.
C36_ExecuteIsDeterministic ==
    (calls # <<>> /\ \A p \in Calls : calls[p].pc \in {"returned", "raised"}) =>
        /\ Visits(heap, calls[1]) = Visits(heap, calls[2])
        /\ calls[1].pc = calls[2].pc
        /\ Outcome(heap, calls[1]) = Outcome(heap, calls[2])

\* two executions have both raised the same node failure after one logged
\* visit each, the visit of the second lying before the failure of the first
C36_Witness ==
    /\ calls # <<>>
    /\ calls[1].pc = "raised" /\ calls[2].pc = "raised"
    /\ calls[1].error.kind = "NodeExecutionFailure"
    /\ Len(calls[1].log) = 1 /\ Len(calls[2].log) = 1
    /\ calls[1].log[1].exit_state < calls[2].log[1].entry_state
    /\ Deref(heap, calls[2].log[1].exit_state) # Deref(heap, initial_state)

\* execute returned normally in the background task
ExecuteSucceeded == error.kind \in {"", "StoreRunFailure"}

\* C37 (as claimed): when the background task of an asynchronous run whose
\* execute returned is over, the run record carries the run_id and the graph_id
\* it was reserved with, status "completed", and the final state and the log
\* that execute returned.
C37_CompletedRecordKeepsItsIds ==
    (pc = "done" /\ run_record # NoneV /\ ExecuteSucceeded) =>
        run_record = [run_id |-> NewRunId, graph_id |-> RequestGraphId,
                      status |-> "completed", final_state |-> RefV(state), log |-> log]

====
